---- MODULE Spec2Model ----
(***************************************************************************)
(* A model of bstruct (src/bstruct/__init__.py): the resolution of field   *)
(* declarations to encodings, the compilation of a record class to a       *)
(* _StructEncoding, and the public encode / decode / decode_all calls.     *)
(*                                                                         *)
(* Python objects are tagged records.  Python integers are unbounded, so   *)
(* an int is kept as a sign and a magnitude in base 256 (most significant  *)
(* byte first, no leading zero byte); a Decimal is a sign, a coefficient   *)
(* in base 10 (most significant digit first, no leading zero) and an       *)
(* exponent.  A raised exception is a result record naming its class.      *)
(***************************************************************************)
EXTENDS Integers, Sequences, FiniteSets, TLC

(***************************************************************************)
(* Results of a call: a returned Python value or a raised exception.       *)
(***************************************************************************)
Ok(v) == [ok |-> TRUE, val |-> v]
Raise(e) == [ok |-> FALSE, err |-> e]
\* raise e(msg): the message is the sequence of the parts its f-string joins
\* (the literal parts without their backquotes)
RaiseMsg(e, msg) == [ok |-> FALSE, err |-> e, msg |-> msg]

\* x = v; Rest(x): the value is computed once, then named
Let(v, Rest(_)) == CHOOSE y \in {Rest(x) : x \in {v}} : TRUE

\* the rest of a function body once a call returned: an exception propagates
Try(r, Rest(_)) == Let(r, LAMBDA x : IF x.ok THEN Rest(x) ELSE x)

\* except SomeError as error: raise Other(...) from error
Except(r, caught, raised) ==
    IF ~r.ok /\ r.err = caught THEN Raise(raised) ELSE r

(***************************************************************************)
(* Python values.                                                          *)
(***************************************************************************)
PyNone == [t |-> "None"]
PyBool(b) == [t |-> "bool", b |-> b]
PyInt(neg, mag) == [t |-> "int", neg |-> neg, mag |-> mag]
PyBytes(data) == [t |-> "bytes", data |-> data]
PyStr(chars) == [t |-> "str", chars |-> chars]
PyList(items) == [t |-> "list", items |-> items]
PyEnum(cls, member) == [t |-> "enum", cls |-> cls, member |-> member]
PyObj(cls, attrs) == [t |-> "obj", cls |-> cls, attrs |-> attrs]

(***************************************************************************)
(* Byte strings.                                                           *)
(***************************************************************************)
Reverse(s) == [i \in 1..Len(s) |-> s[Len(s) + 1 - i]]
Zeros(n) == [i \in 1..n |-> 0]

RECURSIVE StripLeadingZeros(_)
StripLeadingZeros(s) ==
    IF s # <<>> /\ s[1] = 0 THEN StripLeadingZeros(Tail(s)) ELSE s

RECURSIVE StripTrailingZeros(_)
StripTrailingZeros(s) ==
    IF s # <<>> /\ s[Len(s)] = 0
    THEN StripTrailingZeros(SubSeq(s, 1, Len(s) - 1))
    ELSE s

RECURSIVE Concat(_)
Concat(ss) == IF ss = <<>> THEN <<>> ELSE Head(ss) \o Concat(Tail(ss))

\* the magnitude of a natural number, for writing the inputs of the model
RECURSIVE NatMag(_)
NatMag(n) == IF n = 0 THEN <<>> ELSE NatMag(n \div 256) \o <<n % 256>>

IntOf(n) == IF n < 0 THEN PyInt(TRUE, NatMag(-n)) ELSE PyInt(FALSE, NatMag(n))

\* the big-endian bytes plus one, modulo 256^Len
RECURSIVE AddOne(_)
AddOne(be) ==
    IF be = <<>> THEN <<>>
    ELSE LET n == Len(be) IN
         IF be[n] = 255
         THEN AddOne(SubSeq(be, 1, n - 1)) \o <<0>>
         ELSE SubSeq(be, 1, n - 1) \o <<be[n] + 1>>

\* two's complement negation of a big-endian byte string
TwosComplement(be) == AddOne([i \in 1..Len(be) |-> 255 - be[i]])

(***************************************************************************)
(* int.to_bytes(length, byteorder, signed=...) and int.from_bytes.         *)
(***************************************************************************)
IntFits(v, length, signed) ==
    LET n == Len(v.mag) IN
    IF ~signed THEN ~v.neg /\ n <= length
    ELSE IF ~v.neg THEN n < length \/ (n = length /\ v.mag[1] < 128)
    ELSE \/ n < length
         \/ /\ n = length
            /\ \/ v.mag[1] < 128
               \/ v.mag[1] = 128 /\ \A i \in 2..n : v.mag[i] = 0

\* big-endian bytes put in the byte order asked for, and back
InOrder(be, byteorder) == IF byteorder = "little" THEN Reverse(be) ELSE be

Padded(mag, length) == Zeros(length - Len(mag)) \o mag

\* the bytes of an int that fits, in the byte order asked for
IntBytes(v, length, byteorder) ==
    InOrder(IF v.neg THEN TwosComplement(Padded(v.mag, length))
            ELSE Padded(v.mag, length),
            byteorder)

int_to_bytes(v, length, byteorder, signed) ==
    IF IntFits(v, length, signed)
    THEN Ok(PyBytes(IntBytes(v, length, byteorder)))
    ELSE Raise("OverflowError")

\* the int of big-endian bytes
IntOfBytes(be, signed) ==
    IF signed /\ be # <<>> /\ be[1] >= 128
    THEN PyInt(TRUE, StripLeadingZeros(TwosComplement(be)))
    ELSE PyInt(FALSE, StripLeadingZeros(be))

\* a variant that reads every byte string as big-endian
int_from_bytes_big(data, byteorder, signed) == IntOfBytes(data, signed)

int_from_bytes(data, byteorder, signed) == IntOfBytes(InOrder(data, byteorder), signed)

(***************************************************************************)
(* The struct module as bstruct uses it: a format is a sequence of slots,  *)
(* each one format character with its byte size; the "<" and ">" prefixes  *)
(* select the standard sizes, without alignment.                           *)
(***************************************************************************)
Slot(code, size) == [code |-> code, size |-> size]

SignedCodes == {"b", "h", "i", "q"}
UnsignedCodes == {"B", "H", "I", "Q"}

RECURSIVE SumSizes(_)
SumSizes(fmt) == IF fmt = <<>> THEN 0 ELSE Head(fmt).size + SumSizes(Tail(fmt))

\* a variant with the native mode's trailing alignment to four bytes
calcsize_aligned(fmt) == SumSizes(fmt) + ((4 - (SumSizes(fmt) % 4)) % 4)

\* struct.Struct(f"<{format}").size
calcsize(fmt) == SumSizes(fmt)

\* bool(x)
Truthy(x) ==
    CASE x.t = "None" -> FALSE
      [] x.t = "bool" -> x.b
      [] x.t = "int" -> x.mag # <<>>
      [] x.t = "enum" -> x.member.mag # <<>>
      [] x.t = "bytes" -> x.data # <<>>
      [] x.t = "str" -> x.chars # <<>>
      [] x.t = "list" -> x.items # <<>>
      [] x.t = "Decimal" -> x.coef # <<>>
      [] OTHER -> TRUE

\* the int an argument stands for when struct asks for its __index__
IndexOf(x) ==
    CASE x.t = "int" -> x
      [] x.t = "enum" -> x.member
      [] x.t = "bool" -> PyInt(FALSE, IF x.b THEN <<1>> ELSE <<>>)

\* one argument packed into its slot: Ok(bytes) or struct.error
pack_slot(slot, byteorder, arg) ==
    CASE slot.code = "?" -> Ok(PyBytes(<<IF Truthy(arg) THEN 1 ELSE 0>>))
      [] slot.code = "s" ->
            IF arg.t # "bytes" THEN Raise("struct.error")
            ELSE Ok(PyBytes(IF Len(arg.data) >= slot.size
                            THEN SubSeq(arg.data, 1, slot.size)
                            ELSE arg.data \o Zeros(slot.size - Len(arg.data))))
      [] OTHER ->
            IF arg.t \notin {"int", "enum", "bool"} THEN Raise("struct.error")
            ELSE Except(int_to_bytes(IndexOf(arg), slot.size, byteorder,
                                     slot.code \in SignedCodes),
                        "OverflowError", "struct.error")

RECURSIVE pack_slots(_, _, _)
pack_slots(fmt, byteorder, args) ==
    IF fmt = <<>> THEN Ok(PyBytes(<<>>))
    ELSE Try(pack_slot(Head(fmt), byteorder, Head(args)), LAMBDA h :
         Try(pack_slots(Tail(fmt), byteorder, Tail(args)), LAMBDA r :
         Ok(PyBytes(h.val.data \o r.val.data))))

\* struct.Struct.pack(*args)
struct_pack(fmt, byteorder, args) ==
    IF Len(args) # Len(fmt) THEN Raise("struct.error")
    ELSE pack_slots(fmt, byteorder, args)

unpack_slot(slot, byteorder, data) ==
    CASE slot.code = "?" -> PyBool(data[1] # 0)
      [] slot.code = "s" -> PyBytes(data)
      [] OTHER -> int_from_bytes(data, byteorder, slot.code \in SignedCodes)

RECURSIVE unpack_slots(_, _, _)
unpack_slots(fmt, byteorder, data) ==
    IF fmt = <<>> THEN <<>>
    ELSE <<unpack_slot(Head(fmt), byteorder, SubSeq(data, 1, Head(fmt).size))>>
         \o unpack_slots(Tail(fmt), byteorder,
                         SubSeq(data, Head(fmt).size + 1, Len(data)))

\* a variant that zero-fills a short buffer and ignores the excess of a long one
struct_unpack_lenient(fmt, byteorder, data) ==
    Ok(PyList(unpack_slots(fmt, byteorder,
                           SubSeq(data \o Zeros(SumSizes(fmt)), 1, SumSizes(fmt)))))

\* struct.Struct.unpack(data): Ok(list of the native values) or struct.error
struct_unpack(fmt, byteorder, data) ==
    IF Len(data) # calcsize(fmt) THEN Raise("struct.error")
    ELSE Ok(PyList(unpack_slots(fmt, byteorder, data)))

\* a variant that reads the first record again at every step
Chunks_first(data, size) == [i \in 1..(Len(data) \div size) |-> SubSeq(data, 1, size)]

\* the buffer cut into records of `size` bytes
RECURSIVE Chunks(_, _)
Chunks(data, size) ==
    IF data = <<>> THEN <<>>
    ELSE <<SubSeq(data, 1, size)>> \o Chunks(SubSeq(data, size + 1, Len(data)), size)

\* struct.Struct.iter_unpack(data): Ok(list of the tuples) or struct.error
UnpackEach(fmt, byteorder, cs) ==
    PyList([i \in 1..Len(cs) |-> PyList(unpack_slots(fmt, byteorder, cs[i]))])

struct_iter_unpack(fmt, byteorder, data) ==
    IF calcsize(fmt) = 0 THEN Raise("struct.error")
    ELSE IF Len(data) % calcsize(fmt) # 0 THEN Raise("struct.error")
    ELSE Ok(UnpackEach(fmt, byteorder, Chunks(data, calcsize(fmt))))

(***************************************************************************)
(* str.encode("utf-8") and bytes.decode("utf-8"): a str is its sequence of *)
(* code points.                                                            *)
(***************************************************************************)
utf8_char(cp) ==
    IF cp < 128 THEN <<cp>>
    ELSE IF cp < 2048 THEN <<192 + cp \div 64, 128 + (cp % 64)>>
    ELSE IF cp < 65536
    THEN <<224 + cp \div 4096, 128 + ((cp \div 64) % 64), 128 + (cp % 64)>>
    ELSE <<240 + cp \div 262144, 128 + ((cp \div 4096) % 64),
           128 + ((cp \div 64) % 64), 128 + (cp % 64)>>

IsSurrogate(cp) == cp >= 55296 /\ cp <= 57343

RECURSIVE utf8_bytes(_)
utf8_bytes(chars) ==
    IF chars = <<>> THEN <<>> ELSE utf8_char(Head(chars)) \o utf8_bytes(Tail(chars))

str_encode(s) ==
    IF \E i \in 1..Len(s.chars) : IsSurrogate(s.chars[i])
    THEN Raise("UnicodeEncodeError")
    ELSE Ok(PyBytes(utf8_bytes(s.chars)))

IsCont(data, i) == i <= Len(data) /\ data[i] >= 128 /\ data[i] <= 191

\* the code points of well-formed UTF-8, or <<-1>> at the first ill-formed byte
RECURSIVE utf8_chars(_)
utf8_chars(data) ==
    IF data = <<>> THEN <<>>
    ELSE LET b == data[1]
             more(n, cp) ==
                 LET r == utf8_chars(SubSeq(data, n + 1, Len(data))) IN
                 IF r # <<>> /\ r[1] = -1 THEN r ELSE <<cp>> \o r
         IN IF b < 128 THEN more(1, b)
            ELSE IF b >= 194 /\ b <= 223 /\ IsCont(data, 2)
            THEN more(2, (b - 192) * 64 + (data[2] - 128))
            ELSE IF b >= 224 /\ b <= 239 /\ IsCont(data, 2) /\ IsCont(data, 3)
                    /\ (b = 224 => data[2] >= 160) /\ (b = 237 => data[2] < 160)
            THEN more(3, (b - 224) * 4096 + (data[2] - 128) * 64 + (data[3] - 128))
            ELSE IF b >= 240 /\ b <= 244 /\ IsCont(data, 2) /\ IsCont(data, 3)
                    /\ IsCont(data, 4)
                    /\ (b = 240 => data[2] >= 144) /\ (b = 244 => data[2] < 144)
            THEN more(4, (b - 240) * 262144 + (data[2] - 128) * 4096
                          + (data[3] - 128) * 64 + (data[4] - 128))
            ELSE <<-1>>

CharsResult(cs) ==
    IF cs # <<>> /\ cs[1] = -1 THEN Raise("UnicodeDecodeError") ELSE Ok(PyStr(cs))

bytes_decode(data) == CharsResult(utf8_chars(data))

(***************************************************************************)
(* Unbounded naturals as digit strings, and decimal.Decimal under the      *)
(* default context (28 significant digits, ROUND_HALF_EVEN).               *)
(***************************************************************************)
RECURSIVE NatDigits(_, _)
NatDigits(n, base) ==
    IF n = 0 THEN <<>> ELSE NatDigits(n \div base, base) \o <<n % base>>

\* digits * m + carry, all in `base`
RECURSIVE MulAdd(_, _, _, _)
MulAdd(digits, base, m, carry) ==
    IF carry = 0 /\ digits = <<>> THEN <<>>
    ELSE IF digits = <<>> THEN NatDigits(carry, base)
    ELSE LET n == Len(digits)
             x == digits[n] * m + carry
         IN MulAdd(SubSeq(digits, 1, n - 1), base, m, x \div base) \o <<x % base>>

\* decimal digits grouped four by four into digits of base 10000, and back
Limbs(digits) ==
    [j \in 1..((Len(digits) + 3) \div 4) |->
        LET at(i) == IF i < 1 THEN 0 ELSE digits[i]
            last == Len(digits) - 4 * (((Len(digits) + 3) \div 4) - j)
        IN at(last - 3) * 1000 + at(last - 2) * 100 + at(last - 1) * 10 + at(last)]

Digits(limbs) ==
    StripLeadingZeros([i \in 1..(4 * Len(limbs)) |->
        (limbs[(i + 3) \div 4] \div <<1000, 100, 10, 1>>[((i - 1) % 4) + 1]) % 10])

\* a digit string of base `from` rewritten in base `to`
RECURSIVE Rebase(_, _, _, _)
Rebase(digits, from, to, acc) ==
    IF digits = <<>> THEN acc
    ELSE Let(MulAdd(acc, to, from, Head(digits)), LAMBDA next :
         Rebase(Tail(digits), from, to, next))

PyDec(neg, coef, exp) == [t |-> "Decimal", neg |-> neg, coef |-> coef, exp |-> exp]

\* the same number with no trailing zero in its coefficient (Decimal's == is numeric)
RECURSIVE Canonical(_)
Canonical(d) ==
    IF d.coef = <<>> THEN PyDec(FALSE, <<>>, 0)
    ELSE IF d.coef[Len(d.coef)] = 0
    THEN Canonical(PyDec(d.neg, SubSeq(d.coef, 1, Len(d.coef) - 1), d.exp + 1))
    ELSE d

\* Context._fix: round an exact result to the context's precision, half to even
RoundToContext(d) ==
    LET n == Len(d.coef)
        p == 28
    IN IF n <= p THEN d
       ELSE LET keep == SubSeq(d.coef, 1, p)
                first == d.coef[p + 1]
                restZero == \A i \in (p + 2)..n : d.coef[i] = 0
                up == \/ first > 5
                      \/ first = 5 /\ ~restZero
                      \/ first = 5 /\ restZero /\ keep[p] % 2 = 1
            IN PyDec(d.neg, IF up THEN MulAdd(keep, 10, 1, 1) ELSE keep,
                     d.exp + (n - p))

\* limbs * m**times, in base 10000
RECURSIVE MulPowLimbs(_, _, _)
MulPowLimbs(limbs, m, times) ==
    IF times = 0 THEN limbs
    ELSE Let(MulAdd(limbs, 10000, m, 0), LAMBDA next : MulPowLimbs(next, m, times - 1))

\* coef * m**times, in decimal digits
MulPow(coef, m, times) ==
    Let(Limbs(coef), LAMBDA limbs :
    Let(MulPowLimbs(limbs, m, times), LAMBDA product : Digits(product)))

\* value * I80F48_DIVISOR, where 2**48 = 65536**3
decimal_mul_divisor(d) ==
    IF d.coef = <<>> THEN d
    ELSE Let(MulPow(d.coef, 65536, 3), LAMBDA coef :
         RoundToContext(PyDec(d.neg, coef, d.exp)))

\* int(d): truncation toward zero
IntegerDigits(d) ==
    IF d.exp >= 0 THEN d.coef \o Zeros(d.exp)
    ELSE IF -d.exp >= Len(d.coef) THEN <<>>
    ELSE SubSeq(d.coef, 1, Len(d.coef) + d.exp)

SignedInt(neg, mag) == PyInt(neg /\ mag # <<>>, mag)

decimal_int(d) ==
    Let(IntegerDigits(d), LAMBDA digits :
    Let(Rebase(Limbs(digits), 10000, 256, <<>>), LAMBDA mag : SignedInt(d.neg, mag)))

\* k / I80F48_DIVISOR: the exact quotient is k * 5**48 * 10**-48, and
\* 5**48 = 15625**8
int_div_divisor(k) ==
    Let(Rebase(k.mag, 256, 10000, <<>>), LAMBDA limbs :
    Let(Digits(MulPowLimbs(limbs, 15625, 8)), LAMBDA coef :
    Canonical(RoundToContext(PyDec(k.neg, coef, -48)))))

(***************************************************************************)
(* Decoders and encoders.  A decoder or encoder of the source is a Python  *)
(* function or closure; here it is a record naming the function, with the  *)
(* values its closure captured, and apply_decode / apply_encode call it.   *)
(* A decoder takes the cursor (the native values not consumed yet) and     *)
(* returns its value with the rest of the cursor; an encoder returns the   *)
(* sink with what it appended.                                             *)
(***************************************************************************)
Fn(name) == [f |-> name]
ArrayDecode(inner, length) == [f |-> "array._decode", inner |-> inner, length |-> length]
ArrayEncode(inner) == [f |-> "array._encode", inner |-> inner]
EnumDecode(cls, inner) == [f |-> "enum.decode", enum |-> cls, inner |-> inner]
StructDecode(cls, decoders) == [f |-> "_derive._decode", cls |-> cls, decoders |-> decoders]
StructEncode(encoders, names) ==
    [f |-> "_derive._encode", encoders |-> encoders, names |-> names]

Decoded(v, rest) == [ok |-> TRUE, val |-> v, rest |-> rest]
Encoded(attributes) == [ok |-> TRUE, attrs |-> attributes]

\* the IntEnum classes a program declares, with their members' values
EnumMembers(cls) ==
    CASE cls = "TestEnum" -> {<<1>>, <<2>>}
      [] OTHER -> {}

\* cls(value) for an IntEnum class
enum_call(cls, v) ==
    IF v.t = "int" /\ ~v.neg /\ v.mag \in EnumMembers(cls)
    THEN Ok(PyEnum(cls, v))
    ELSE Raise("ValueError")

_raw_encode(value, attributes) == Encoded(Append(attributes, value))

_raw_decode(iterator) ==
    IF iterator = <<>> THEN Raise("StopIteration")
    ELSE Decoded(Head(iterator), Tail(iterator))

_decode_str(attributes) ==
    IF attributes = <<>> THEN Raise("StopIteration")
    ELSE IF Head(attributes).t # "bytes" THEN Raise("AssertionError")
    ELSE Try(bytes_decode(StripTrailingZeros(Head(attributes).data)), LAMBDA r :
         Decoded(r.val, Tail(attributes)))

_encode_str(value, attributes) ==
    IF value.t # "str" THEN Raise("AttributeError")
    ELSE Try(str_encode(value), LAMBDA data :
         Encoded(Append(attributes, data.val)))

\* _decode_uint (signed = FALSE) and _decode_int (signed = TRUE)
_decode_bigint(attributes, byteorder, signed) ==
    IF attributes = <<>> THEN Raise("StopIteration")
    ELSE IF Head(attributes).t # "bytes" THEN Raise("AssertionError")
    ELSE Decoded(int_from_bytes(Head(attributes).data, byteorder, signed),
                 Tail(attributes))

\* _encode_uint128, _encode_uint256, _encode_int128, _encode_int256
_encode_bigint(value, attributes, byteorder, length, signed) ==
    IF value.t \notin {"int", "enum", "bool"} THEN Raise("AttributeError")
    ELSE Try(int_to_bytes(IndexOf(value), length, byteorder, signed), LAMBDA data :
         Encoded(Append(attributes, data.val)))

_decode_I80F48(attributes, byte_order) ==
    IF attributes = <<>> THEN Raise("StopIteration")
    ELSE IF Head(attributes).t # "bytes" THEN Raise("AssertionError")
    ELSE Let(int_from_bytes(Head(attributes).data, byte_order, TRUE), LAMBDA k :
         Decoded(int_div_divisor(k), Tail(attributes)))

_encode_I80F48(value, attributes, byte_order) ==
    IF value.t # "Decimal" THEN Raise("TypeError")
    ELSE Let(decimal_mul_divisor(value), LAMBDA scaled :
         Let(decimal_int(scaled), LAMBDA k :
         Try(int_to_bytes(k, 16, byte_order, TRUE), LAMBDA data :
         Encoded(Append(attributes, data.val)))))

\* iter(l): the items of a list, the ints of a bytes value, the characters of
\* a str; TypeError for a value that is not iterable
iterate(l) ==
    CASE l.t = "list" -> Ok(l.items)
      [] l.t = "bytes" -> Ok([i \in 1..Len(l.data) |-> IntOf(l.data[i])])
      [] l.t = "str" -> Ok([i \in 1..Len(l.chars) |-> PyStr(<<l.chars[i]>>)])
      [] OTHER -> Raise("TypeError")

\* a variant that appends the list as one native value
_encode_native_list_single(l, attributes) ==
    IF l.t # "list" THEN Raise("TypeError") ELSE Encoded(Append(attributes, l))

\* a variant that appends the items last to first
_encode_native_list_reversed(l, attributes) ==
    Try(iterate(l), LAMBDA items : Encoded(attributes \o Reverse(items.val)))

\* attributes.extend(l)
_encode_native_list(l, attributes) ==
    Try(iterate(l), LAMBDA items : Encoded(attributes \o items.val))

\* the position of a field name in a class's fields, 0 when it has none
IndexIn(names, name) ==
    IF \E i \in 1..Len(names) : names[i] = name
    THEN CHOOSE i \in 1..Len(names) : names[i] = name
    ELSE 0

(***************************************************************************)
(* The external class of test_external_class.py and its codec functions.   *)
(***************************************************************************)
RECURSIVE MagLess(_, _)
\* the order of two magnitudes, most significant byte first
MagLess(a, b) ==
    IF Len(a) # Len(b) THEN Len(a) < Len(b)
    ELSE IF a = <<>> THEN FALSE
    ELSE IF Head(a) # Head(b) THEN Head(a) < Head(b)
    ELSE MagLess(Tail(a), Tail(b))

\* a < b for two ints
int_lt(a, b) ==
    IF a.neg # b.neg THEN a.neg
    ELSE IF a.neg THEN MagLess(b.mag, a.mag)
    ELSE MagLess(a.mag, b.mag)

\* Range(start, end): __init__ asserts start < end
Range(start, end) ==
    IF int_lt(start, end) THEN Ok(PyObj("Range", <<start, end>>))
    ELSE Raise("AssertionError")

\* a decoder that hands the two slots over in the other order
decode_range_swapped(attributes) ==
    Try(_raw_decode(attributes), LAMBDA start :
    Try(_raw_decode(start.rest), LAMBDA end :
    Try(Range(end.val, start.val), LAMBDA value :
    Decoded(value.val, end.rest))))

decode_range(attributes) ==
    Try(_raw_decode(attributes), LAMBDA start :
    IF start.val.t \notin {"int", "bool"} THEN Raise("AssertionError")
    ELSE Try(_raw_decode(start.rest), LAMBDA end :
    IF end.val.t \notin {"int", "bool"} THEN Raise("AssertionError")
    ELSE Try(Range(start.val, end.val), LAMBDA value :
    Decoded(value.val, end.rest))))

encode_range(value, attributes) ==
    IF value.t = "obj" /\ value.cls = "Range"
    THEN Encoded(attributes \o <<value.attrs[1], value.attrs[2]>>)
    ELSE Raise("AttributeError")

RECURSIVE apply_decode(_, _, _)
RECURSIVE decode_each(_, _, _, _)
\* the decoders run in order against the shared cursor
decode_each(decoders, cursor, byteorder, acc) ==
    IF decoders = <<>> THEN Decoded(PyList(acc), cursor)
    ELSE Try(apply_decode(Head(decoders), cursor, byteorder), LAMBDA r :
         decode_each(Tail(decoders), r.rest, byteorder, Append(acc, r.val)))

apply_decode(dec, cursor, byteorder) ==
    CASE dec.f = "_raw_decode" -> _raw_decode(cursor)
      [] dec.f = "_decode_str" -> _decode_str(cursor)
      [] dec.f = "_decode_uint" -> _decode_bigint(cursor, byteorder, FALSE)
      [] dec.f = "_decode_int" -> _decode_bigint(cursor, byteorder, TRUE)
      [] dec.f = "_decode_I80F48" -> _decode_I80F48(cursor, byteorder)
      [] dec.f = "decode_range" -> decode_range(cursor)
      [] dec.f = "array._decode" ->
            decode_each([i \in 1..dec.length |-> dec.inner], cursor, byteorder, <<>>)
      [] dec.f = "enum.decode" ->
            Try(apply_decode(dec.inner, cursor, byteorder), LAMBDA r :
            Try(enum_call(dec.enum, r.val), LAMBDA e :
            Decoded(e.val, r.rest)))
      [] dec.f = "_derive._decode" ->
            Try(decode_each(dec.decoders, cursor, byteorder, <<>>), LAMBDA r :
            Decoded(PyObj(dec.cls, r.val.items), r.rest))

(***************************************************************************)
(* Declared types: what a field annotation of a record class can be.       *)
(***************************************************************************)
TClass(name) == [k |-> "class", name |-> name]
TListOf(inner) == [k |-> "list_of", inner |-> inner]
TNewType(name) == [k |-> "NewType", name |-> name]
TString(text) == [k |-> "string", text |-> text]
TAnnotated(base, meta) == [k |-> "Annotated", base |-> base, meta |-> meta]

\* the items of an Annotated's metadata
MEncoding(enc) == [m |-> "encoding", enc |-> enc]
Array(length) == [m |-> "Array", length |-> length]
MOther(text) == [m |-> "other", text |-> text]

(***************************************************************************)
(* The encodings: _NativeEncoding, CustomEncoding and the Encodings table. *)
(***************************************************************************)
_NativeEncoding(target, format) ==
    [kind |-> "native", target |-> target, format |-> format,
     decode |-> Fn("_raw_decode"), encode |-> Fn("_raw_encode")]

_IntEncoding(code, size) == _NativeEncoding(TClass("int"), <<Slot(code, size)>>)

Bytes(size) == _NativeEncoding(TClass("bytes"), <<Slot("s", size)>>)

CustomEncoding(target, format, decode, encode) ==
    [kind |-> "custom", target |-> target, format |-> format,
     decode |-> decode, encode |-> encode]

compile_format(fields) == Concat([i \in 1..Len(fields) |-> fields[i].format])

CustomEncoding_create(target, fields, decode, encode) ==
    CustomEncoding(target, compile_format(fields), decode, encode)

String(size) ==
    CustomEncoding(TClass("str"), Bytes(size).format, Fn("_decode_str"), Fn("_encode_str"))

Encodings ==
    [bool |-> _NativeEncoding(TClass("bool"), <<Slot("?", 1)>>),
     u8 |-> _IntEncoding("B", 1),
     u16 |-> _IntEncoding("H", 2),
     u32 |-> _IntEncoding("I", 4),
     u64 |-> _IntEncoding("Q", 8),
     u128 |-> CustomEncoding_create(TClass("int"), <<Bytes(16)>>,
                                    Fn("_decode_uint"), Fn("_encode_uint128")),
     u256 |-> CustomEncoding_create(TClass("int"), <<Bytes(32)>>,
                                    Fn("_decode_uint"), Fn("_encode_uint256")),
     i8 |-> _IntEncoding("b", 1),
     i16 |-> _IntEncoding("h", 2),
     i32 |-> _IntEncoding("i", 4),
     i64 |-> _IntEncoding("q", 8),
     i128 |-> CustomEncoding_create(TClass("int"), <<Bytes(16)>>,
                                    Fn("_decode_int"), Fn("_encode_int128")),
     i256 |-> CustomEncoding_create(TClass("int"), <<Bytes(32)>>,
                                    Fn("_decode_int"), Fn("_encode_int256")),
     I80F48 |-> CustomEncoding_create(TClass("Decimal"), <<Bytes(16)>>,
                                      Fn("_decode_I80F48"), Fn("_encode_I80F48"))]

\* the module's aliases u8 = Annotated[int, Encodings.u8], ...
IntAlias(enc) == TAnnotated(TClass("int"), <<MEncoding(enc)>>)
I80F48 == TAnnotated(TClass("Decimal"), <<MEncoding(Encodings.I80F48)>>)

\* Range.FIELDS and RangeEncoding of test_external_class.py
FIELDS == <<Encodings.u8, Encodings.u8>>
RangeEncoding ==
    CustomEncoding_create(TClass("Range"), FIELDS, Fn("decode_range"), Fn("encode_range"))

(***************************************************************************)
(* The record classes of the program: the fields of each class statement,  *)
(* in declaration order.                                                   *)
(***************************************************************************)
Field(name, type) == [name |-> name, type |-> type]

IntEnums == {"TestEnum"}

ClassFields(cls) ==
    CASE cls = "Empty" -> <<>>
      [] cls = "Order" ->
            <<Field("small", IntAlias(Encodings.u16)),
              Field("large", IntAlias(Encodings.u128))>>
      [] cls = "Ints" ->
            <<Field("u8", IntAlias(Encodings.u8)), Field("u16", IntAlias(Encodings.u16)),
              Field("u32", IntAlias(Encodings.u32)), Field("u64", IntAlias(Encodings.u64)),
              Field("u128", IntAlias(Encodings.u128)),
              Field("u256", IntAlias(Encodings.u256)),
              Field("i8", IntAlias(Encodings.i8)), Field("i16", IntAlias(Encodings.i16)),
              Field("i32", IntAlias(Encodings.i32)), Field("i64", IntAlias(Encodings.i64)),
              Field("i128", IntAlias(Encodings.i128)),
              Field("i256", IntAlias(Encodings.i256))>>
      [] cls = "Text" ->
            <<Field("name", TAnnotated(TClass("str"), <<MEncoding(String(2))>>)),
              Field("raw", TAnnotated(TClass("bytes"), <<MEncoding(Bytes(2))>>))>>
      [] cls = "Fixed" -> <<Field("value", I80F48)>>
      [] cls = "Tagged" ->
            <<Field("tag", TAnnotated(TClass("TestEnum"), <<MEncoding(Encodings.u8)>>)),
              Field("flag", TClass("bool"))>>
      [] cls = "Inner" ->
            <<Field("items", TAnnotated(TListOf(IntAlias(Encodings.u8)), <<Array(2)>>))>>
      [] cls = "Outer" ->
            <<Field("head", TAnnotated(TListOf(IntAlias(Encodings.u16)), <<Array(2)>>)),
              Field("inner", TClass("Inner")),
              Field("tail", TAnnotated(TListOf(TAnnotated(TClass("str"),
                                                          <<MEncoding(String(1))>>)),
                                       <<Array(1)>>))>>
      [] cls = "Wrong" ->
            <<Field("value", TAnnotated(TClass("str"), <<MEncoding(Encodings.u8)>>))>>
      [] cls = "Loose" ->
            <<Field("value", TAnnotated(TNewType("X"), <<MEncoding(Encodings.u8)>>))>>
      [] cls = "Plain" -> <<Field("value", TClass("complex"))>>
      [] cls = "NoEncoding" ->
            <<Field("value", TAnnotated(TClass("int"), <<MOther("some_annotation")>>))>>
      [] cls = "BareList" ->
            <<Field("items", TAnnotated(TClass("list"), <<Array(3)>>))>>
      [] cls = "NoLength" ->
            <<Field("items", TAnnotated(TListOf(IntAlias(Encodings.u8)),
                                        <<MOther("some_annotation")>>))>>
      [] cls = "Partial" ->
            <<Field("x", IntAlias(Encodings.u8)), Field("y", TClass("complex"))>>
      [] cls = "UsesPartial" -> <<Field("p", TClass("Partial"))>>
      [] cls = "Child" -> <<Field("y", TClass("complex"))>>
      [] cls = "UsesChild" -> <<Field("c", TClass("Child"))>>
      [] cls = "Ranged" ->
            <<Field("range", TAnnotated(TClass("Range"), <<MEncoding(RangeEncoding)>>))>>
      [] cls = "Framed" ->
            <<Field("head", IntAlias(Encodings.u16)),
              Field("range", TAnnotated(TClass("Range"), <<MEncoding(RangeEncoding)>>)),
              Field("tail", IntAlias(Encodings.u8))>>
      [] cls = "Header" -> <<Field("item_count", IntAlias(Encodings.u8))>>
      [] cls = "Item" -> <<Field("value", IntAlias(Encodings.u8))>>

Classes ==
    {"Empty", "Order", "Ints", "Text", "Fixed", "Tagged", "Inner", "Outer",
     "Wrong", "Loose", "Plain", "NoEncoding", "BareList", "NoLength",
     "Partial", "UsesPartial", "Child", "UsesChild", "Header", "Item",
     "Ranged", "Framed"}

\* the base of each class statement: class Child(Order), the others
\* class X(bstruct.Struct)
Bases(cls) == IF cls = "Child" THEN "Order" ELSE "Struct"

FieldNames(cls) ==
    IF cls \in Classes
    THEN [i \in 1..Len(ClassFields(cls)) |-> ClassFields(cls)[i].name]
    ELSE <<>>

RECURSIVE apply_encode(_, _, _, _)
RECURSIVE encode_items(_, _, _, _)
\* for item in l: inner_encode(item, attributes, byte_order)
encode_items(inner, items, attributes, byteorder) ==
    IF items = <<>> THEN Encoded(attributes)
    ELSE Try(apply_encode(inner, Head(items), attributes, byteorder), LAMBDA r :
         encode_items(inner, Tail(items), r.attrs, byteorder))

RECURSIVE encode_fields(_, _, _, _, _, _)
\* for encode_attribute, name in zip(attribute_encoders, attribute_names): ...
encode_fields(encoders, names, has, value, attributes, byteorder) ==
    IF encoders = <<>> \/ names = <<>> THEN Encoded(attributes)
    ELSE IF value.t # "obj" \/ IndexIn(has, Head(names)) = 0
    THEN Raise("AttributeError")
    ELSE Try(apply_encode(Head(encoders), value.attrs[IndexIn(has, Head(names))],
                          attributes, byteorder),
             LAMBDA r : encode_fields(Tail(encoders), Tail(names), has, value,
                                      r.attrs, byteorder))

apply_encode(enc, value, attributes, byteorder) ==
    CASE enc.f = "_raw_encode" -> _raw_encode(value, attributes)
      [] enc.f = "_encode_str" -> _encode_str(value, attributes)
      [] enc.f = "_encode_uint128" -> _encode_bigint(value, attributes, byteorder, 16, FALSE)
      [] enc.f = "_encode_uint256" -> _encode_bigint(value, attributes, byteorder, 32, FALSE)
      [] enc.f = "_encode_int128" -> _encode_bigint(value, attributes, byteorder, 16, TRUE)
      [] enc.f = "_encode_int256" -> _encode_bigint(value, attributes, byteorder, 32, TRUE)
      [] enc.f = "_encode_I80F48" -> _encode_I80F48(value, attributes, byteorder)
      [] enc.f = "encode_range" -> encode_range(value, attributes)
      [] enc.f = "_encode_native_list" -> _encode_native_list(value, attributes)
      [] enc.f = "array._encode" ->
            Try(iterate(value), LAMBDA items :
            encode_items(enc.inner, items.val, attributes, byteorder))
      [] enc.f = "_derive._encode" ->
            encode_fields(enc.encoders, enc.names,
                          IF value.t = "obj" THEN FieldNames(value.cls) ELSE <<>>,
                          value, attributes, byteorder)

(***************************************************************************)
(* Resolution of a declared type to its encoding.  `registry` maps each    *)
(* class that has __bstruct_encoding__ in its own __dict__ to that         *)
(* _StructEncoding; hasattr and getattr also find the attribute of a base. *)
(***************************************************************************)
RECURSIVE mro_lookup(_, _)
\* the class among cls and its bases whose __dict__ holds the attribute
mro_lookup(cls, registry) ==
    IF cls \in DOMAIN registry THEN cls
    ELSE IF cls \in Classes /\ Bases(cls) # "Struct"
    THEN mro_lookup(Bases(cls), registry)
    ELSE "none"

_has_struct_encoding(type, registry) ==
    type.k = "class" /\ mro_lookup(type.name, registry) # "none"

_get_struct_encoding(type, registry) == registry[mro_lookup(type.name, registry)]

IsEncoding(data) == data.m = "encoding"

_resolve_array_length(metadata) ==
    IF \E i \in 1..Len(metadata) : metadata[i].m = "Array"
    THEN Ok(metadata[CHOOSE i \in 1..Len(metadata) :
                       /\ metadata[i].m = "Array"
                       /\ \A j \in 1..(i - 1) : metadata[j].m # "Array"])
    ELSE Raise("TypeError")

_resolve_unsafe_encoding(metadata) ==
    IF \E i \in 1..Len(metadata) : IsEncoding(metadata[i])
    THEN Ok(metadata[CHOOSE i \in 1..Len(metadata) :
                       /\ IsEncoding(metadata[i])
                       /\ \A j \in 1..(i - 1) : ~IsEncoding(metadata[j])].enc)
    ELSE Raise("TypeError")

\* the Python class of an encoding object
ClassOf(data) ==
    CASE data.kind = "struct" -> "_StructEncoding"
      [] data.kind = "native" /\ data.target = TClass("int") -> "_IntEncoding"
      [] data.kind = "native" /\ data.target = TClass("bytes") -> "Bytes"
      [] data.kind = "native" -> "_NativeEncoding"
      [] data.kind = "custom" /\ data.decode = Fn("_decode_str") -> "String"
      [] OTHER -> "CustomEncoding"

\* str(x) inside an f-string: "<class 'int'>" for a class, and for an object
\* without __str__ the default "<bstruct.String object at 0x...>", which names
\* the object's class and nothing of what it holds
Literal(text) == [str |-> "literal", text |-> text]
ClassStr(type) == [str |-> "class", name |-> type.name]
ObjectStr(data) == [str |-> "object", class |-> ClassOf(data)]

_resolve_simple_encoding(target, metadata) ==
    Try(_resolve_unsafe_encoding(metadata), LAMBDA data :
    IF data.val.target # target
    THEN RaiseMsg("TypeError", <<Literal("Wrong encoding: Expected Encoding["),
                                 ObjectStr(data.val), Literal("], got Encoding["),
                                 ClassStr(data.val.target), Literal("]")>>)
    ELSE data)

_resolve_int_enum_encoding(cls, metadata) ==
    Try(_resolve_simple_encoding(TClass("int"), metadata), LAMBDA inner_encoding :
    Ok(CustomEncoding(TClass(cls), inner_encoding.val.format,
                      EnumDecode(cls, inner_encoding.val.decode),
                      inner_encoding.val.encode)))

RECURSIVE _resolve_encoding(_, _)
\* the CustomEncoding that _resolve_array_encoding builds
ArrayEncoding(array_type, inner, length) ==
    CustomEncoding(array_type, Concat([i \in 1..length |-> inner.format]),
                   ArrayDecode(inner.decode, length),
                   IF inner.encode.f = "_raw_encode"
                   THEN Fn("_encode_native_list")
                   ELSE ArrayEncode(inner.encode))

_resolve_array_encoding(array_type, metadata, registry) ==
    Try(_resolve_array_length(metadata), LAMBDA array_length :
    Try(_resolve_encoding(array_type.inner, registry), LAMBDA inner_encoding :
    Ok(ArrayEncoding(array_type, inner_encoding.val, array_length.val.length))))

RECURSIVE resolve_annotated(_, _, _)
_resolve_encoding(attribute_type, registry) ==
    IF attribute_type.k = "string" THEN Raise("Exception")
    ELSE IF attribute_type = TClass("bool") THEN Ok(Encodings.bool)
    ELSE IF _has_struct_encoding(attribute_type, registry)
    THEN Ok(_get_struct_encoding(attribute_type, registry))
    ELSE IF attribute_type.k = "Annotated"
    THEN resolve_annotated(attribute_type.base, attribute_type.meta, registry)
    ELSE Raise("AssertionError")

\* the branch of _resolve_encoding for Annotated[annotated_type, *annotation_args]
resolve_annotated(annotated_type, annotation_args, registry) ==
    IF annotated_type.k = "class" /\ annotated_type.name \in IntEnums
    THEN _resolve_int_enum_encoding(annotated_type.name, annotation_args)
    ELSE IF annotated_type = TClass("list") THEN Raise("TypeError")
    ELSE IF annotated_type.k = "list_of"
    THEN _resolve_array_encoding(annotated_type, annotation_args, registry)
    ELSE IF annotated_type.k = "NewType"
    THEN _resolve_unsafe_encoding(annotation_args)
    ELSE _resolve_simple_encoding(annotated_type, annotation_args)

(***************************************************************************)
(* _StructEncoding and _derive: the compilation of a record class.         *)
(***************************************************************************)
\* struct.Struct(f"<{format}") and struct.Struct(f">{format}")
_Struct(byteorder, format) == [byteorder |-> byteorder, format |-> format]

_StructEncoding(cls, format, decode, encode) ==
    [kind |-> "struct", target |-> TClass(cls), format |-> format,
     le_struct |-> _Struct("little", format), be_struct |-> _Struct("big", format),
     size |-> calcsize(_Struct("little", format).format),
     decode |-> decode, encode |-> encode]

\* a variant that packs and unpacks little-endian whatever the call asks for
get_struct_le(encoding, byteorder) == encoding.le_struct

get_struct(encoding, byteorder) ==
    IF byteorder = "little" THEN encoding.le_struct ELSE encoding.be_struct

RECURSIVE resolve_fields_skipping(_, _, _)
\* a variant of the loop that leaves out a field that does not resolve
resolve_fields_skipping(fields, registry, acc) ==
    IF fields = <<>> THEN Ok(PyList(acc))
    ELSE Let(_resolve_encoding(Head(fields).type, registry), LAMBDA encoding :
         resolve_fields_skipping(Tail(fields), registry,
                                 IF encoding.ok THEN Append(acc, encoding.val)
                                 ELSE acc))

RECURSIVE resolve_fields(_, _, _)
\* the loop of _derive: Ok(list of the fields' encodings) or the first error
resolve_fields(fields, registry, acc) ==
    IF fields = <<>> THEN Ok(PyList(acc))
    ELSE Try(_resolve_encoding(Head(fields).type, registry), LAMBDA encoding :
         resolve_fields(Tail(fields), registry, Append(acc, encoding.val)))

\* the _StructEncoding that _derive builds from the fields' encodings
derived(cls, encs) ==
    _StructEncoding(cls, Concat([i \in 1..Len(encs) |-> encs[i].format]),
                    StructDecode(cls, [i \in 1..Len(encs) |-> encs[i].decode]),
                    StructEncode([i \in 1..Len(encs) |-> encs[i].encode],
                                 FieldNames(cls)))

_derive(cls, registry) ==
    Try(resolve_fields(ClassFields(cls), registry, <<>>), LAMBDA resolved :
    Ok(derived(cls, resolved.val.items)))

RECURSIVE is_dataclass(_, _)
\* dataclasses.is_dataclass(cls): cls or a base has __dataclass_fields__, which
\* line 403 gives every class whose statement came that far; `declared` are
\* the classes whose statements have run
is_dataclass(cls, declared) ==
    \/ cls \in declared
    \/ cls \in Classes /\ Bases(cls) # "Struct" /\ is_dataclass(Bases(cls), declared)

\* Struct.__init_subclass__: Ok(the descriptor to publish) or the exception
__init_subclass__(cls, registry, declared) ==
    IF is_dataclass(cls, declared) THEN Raise("AssertionError")
    ELSE _derive(cls, registry)

(***************************************************************************)
(* The public calls.  `encoding` is cls.__bstruct_encoding__.              *)
(***************************************************************************)
get_size(encoding) == encoding.size

\* encode(value, byteorder): Ok(bytes) or the exception raised
encode(encoding, value, byteorder) ==
    Try(apply_encode(encoding.encode, value, <<>>, byteorder), LAMBDA raw_attributes :
    Except(struct_pack(get_struct(encoding, byteorder).format,
                       get_struct(encoding, byteorder).byteorder,
                       raw_attributes.attrs),
           "struct.error", "BstructError"))

\* encoding.decode(iter(raw_attributes), byteorder): the value, the cursor dropped
decode_record(encoding, raw_attributes, byteorder) ==
    Try(apply_decode(encoding.decode, raw_attributes, byteorder), LAMBDA r : Ok(r.val))

\* decode(cls, data, byteorder): Ok(record) or the exception raised
decode(encoding, data, byteorder) ==
    Except(Try(struct_unpack(get_struct(encoding, byteorder).format,
                             get_struct(encoding, byteorder).byteorder, data),
               LAMBDA raw_attributes :
               decode_record(encoding, raw_attributes.val.items, byteorder)),
           "struct.error", "BstructError")

(***************************************************************************)
(* The inputs of the model: the program's class statements in order, the   *)
(* record values it encodes and the byte orders.                           *)
(***************************************************************************)
Program ==
    <<"Empty", "Order", "Ints", "Text", "Fixed", "Tagged", "Inner", "Outer",
      "Wrong", "Loose", "Plain", "NoEncoding", "BareList", "NoLength",
      "Partial", "UsesPartial", "Child", "UsesChild", "Ranged", "Framed">>

ByteOrders == {"little", "big"}

\* the records concatenated into one buffer, at most
MaxRecords == 2

Ones(n) == [i \in 1..n |-> 255]

\* the extreme values of a width of w bytes, and their neighbours out of range
MaxOf(w, signed) == PyInt(FALSE, IF signed THEN <<127>> \o Ones(w - 1) ELSE Ones(w))
MinOf(w, signed) == IF signed THEN PyInt(TRUE, <<128>> \o Zeros(w - 1)) ELSE IntOf(0)
AboveOf(w, signed) ==
    PyInt(FALSE, IF signed THEN <<128>> \o Zeros(w - 1) ELSE <<1>> \o Zeros(w))
BelowOf(w, signed) ==
    IF ~signed THEN IntOf(-1)
    ELSE IF w = 1 THEN IntOf(-129)
    ELSE PyInt(TRUE, <<128>> \o Zeros(w - 2) \o <<1>>)

\* class Ints: the byte width and the signedness of its twelve fields
IntsWidth(i) == <<1, 2, 4, 8, 16, 32, 1, 2, 4, 8, 16, 32>>[i]
IntsSigned(i) == i > 6
IntsBase == <<IntOf(1), IntOf(2), IntOf(3), IntOf(4), IntOf(5), IntOf(6),
              IntOf(-1), IntOf(-2), IntOf(-3), IntOf(-4), IntOf(-5), IntOf(-6)>>

IntsValues ==
    {PyObj("Ints", IntsBase),
     PyObj("Ints", [i \in 1..12 |-> MaxOf(IntsWidth(i), IntsSigned(i))]),
     PyObj("Ints", [i \in 1..12 |-> MinOf(IntsWidth(i), IntsSigned(i))])}
    \cup {PyObj("Ints", [IntsBase EXCEPT ![i] = AboveOf(IntsWidth(i), IntsSigned(i))]) :
            i \in 1..12}
    \cup {PyObj("Ints", [IntsBase EXCEPT ![i] = BelowOf(IntsWidth(i), IntsSigned(i))]) :
            i \in 1..12}

\* 0xFFFF_FFFF_FFFF_FFFF_0000_0000_0000_0000
HighHalf == PyInt(FALSE, Ones(8) \o Zeros(8))

OrderValues ==
    {PyObj("Order", <<IntOf(65280), HighHalf>>),
     PyObj("Order", <<IntOf(4660), MaxOf(16, FALSE)>>),
     PyObj("Order", <<IntOf(65536), IntOf(5)>>),
     PyObj("Order", <<IntOf(-1), IntOf(5)>>),
     PyObj("Order", <<IntOf(5), IntOf(-1)>>),
     PyObj("Order", <<IntOf(5), AboveOf(16, FALSE)>>)}

\* "a", "e-acute" (two bytes of UTF-8), "a\0", "a" then e-acute (three bytes), ""
TextValues ==
    {PyObj("Text", <<PyStr(<<97>>), PyBytes(<<1, 2>>)>>),
     PyObj("Text", <<PyStr(<<233>>), PyBytes(<<0, 7>>)>>),
     PyObj("Text", <<PyStr(<<97, 0>>), PyBytes(<<1, 2>>)>>),
     PyObj("Text", <<PyStr(<<97, 233>>), PyBytes(<<1, 2>>)>>),
     PyObj("Text", <<PyStr(<<>>), PyBytes(<<1>>)>>)}

\* 1234, -0.75, 0.1, 10**23 - 1, 10**24
FixedValues ==
    {PyObj("Fixed", <<PyDec(FALSE, <<1, 2, 3, 4>>, 0)>>),
     PyObj("Fixed", <<PyDec(TRUE, <<7, 5>>, -2)>>),
     PyObj("Fixed", <<PyDec(FALSE, <<1>>, -1)>>),
     PyObj("Fixed", <<PyDec(FALSE, [i \in 1..23 |-> 9], 0)>>),
     PyObj("Fixed", <<PyDec(FALSE, <<1>>, 24)>>)}

TaggedValues ==
    {PyObj("Tagged", <<PyEnum("TestEnum", IntOf(1)), PyBool(TRUE)>>),
     PyObj("Tagged", <<PyEnum("TestEnum", IntOf(2)), PyBool(FALSE)>>)}

\* Struct(range=Range(1, 2)) of test_external_class.py, the widest range, and
\* a range whose end does not fit its slot
RangeOf(start, end) == PyObj("Range", <<IntOf(start), IntOf(end)>>)
RangedValues ==
    {PyObj("Ranged", <<RangeOf(1, 2)>>), PyObj("Ranged", <<RangeOf(0, 255)>>),
     PyObj("Ranged", <<RangeOf(1, 256)>>)}

FramedValues ==
    {PyObj("Framed", <<IntOf(258), RangeOf(1, 2), IntOf(3)>>),
     PyObj("Framed", <<IntOf(258), IntOf(1), IntOf(3)>>)}

InnerOf(items) == PyObj("Inner", <<PyList(items)>>)

\* items of the declared, of a shorter and of a longer length; then values that
\* are no list: b"\x01\x02", "ab" and 5
InnerValues ==
    {InnerOf(<<IntOf(1), IntOf(2)>>), InnerOf(<<IntOf(1)>>),
     InnerOf(<<IntOf(1), IntOf(2), IntOf(3)>>),
     PyObj("Inner", <<PyBytes(<<1, 2>>)>>), PyObj("Inner", <<PyStr(<<97, 98>>)>>),
     PyObj("Inner", <<IntOf(5)>>)}

OuterOf(head, items, tail) ==
    PyObj("Outer", <<PyList(head), InnerOf(items), PyList(tail)>>)

OuterValues ==
    {OuterOf(<<IntOf(258), IntOf(772)>>, <<IntOf(5), IntOf(6)>>, <<PyStr(<<120>>)>>),
     OuterOf(<<IntOf(258)>>, <<IntOf(5), IntOf(6), IntOf(7)>>, <<PyStr(<<120>>)>>),
     OuterOf(<<IntOf(258), IntOf(772), IntOf(9)>>, <<IntOf(5)>>, <<PyStr(<<120>>)>>),
     OuterOf(<<IntOf(258)>>, <<IntOf(5), IntOf(6)>>, <<PyStr(<<120>>)>>),
     OuterOf(<<IntOf(258), IntOf(772)>>, <<IntOf(5), IntOf(6)>>,
             <<PyStr(<<120>>), PyStr(<<121>>)>>),
     OuterOf(<<IntOf(258), IntOf(772)>>, <<IntOf(5), IntOf(6)>>, <<>>),
     OuterOf(<<IntOf(258), IntOf(772)>>, <<IntOf(5), IntOf(6)>>, <<PyStr(<<120>>), IntOf(5)>>),
     PyObj("Outer", <<PyList(<<IntOf(258), IntOf(772)>>), InnerOf(<<IntOf(5), IntOf(6)>>),
                      PyStr(<<120>>)>>)}

Values(cls) ==
    CASE cls = "Empty" -> {PyObj("Empty", <<>>)}
      [] cls = "Order" -> OrderValues
      [] cls = "Ints" -> IntsValues
      [] cls = "Text" -> TextValues
      [] cls = "Fixed" -> FixedValues
      [] cls = "Tagged" -> TaggedValues
      [] cls = "Inner" -> InnerValues
      [] cls = "Outer" -> OuterValues
      [] cls = "Ranged" -> RangedValues
      [] cls = "Framed" -> FramedValues
      [] OTHER -> {}

(***************************************************************************)
(* decode_all is a generator: calling it runs nothing; each next() runs    *)
(* its body up to the next yield, the return or a raise.  `pos` counts the *)
(* records yielded so far.                                                 *)
(***************************************************************************)
Yield(v) == [kind |-> "yield", out |-> Ok(v)]
Stop(e) == [kind |-> "stop", out |-> Raise(e)]

\* what next() gives for the outcome of the generator's body
Resume(r) == IF r.ok THEN Yield(r.val) ELSE Stop(r.err)

\* the body of the for loop, at the record after the `pos` yielded ones
loop_body(encoding, byteorder, iterator, pos) ==
    IF pos >= Len(iterator) THEN Stop("StopIteration")
    ELSE Resume(Except(decode_record(encoding, iterator[pos + 1].items, byteorder),
                       "struct.error", "BstructError"))

loop(encoding, byteorder, iterator, pos) ==
    IF ~iterator.ok THEN Stop("BstructError")
    ELSE loop_body(encoding, byteorder, iterator.val.items, pos)

decode_all_next(encoding, data, byteorder, pos) ==
    loop(encoding, byteorder,
         struct_iter_unpack(get_struct(encoding, byteorder).format,
                            get_struct(encoding, byteorder).byteorder, data),
         pos)

(***************************************************************************)
(* The state: the classes compiled so far, the caller's last call and what *)
(* it got, the byte buffer the caller holds with the records it was built  *)
(* from, and the decode_all generator the caller is iterating.             *)
(***************************************************************************)
VARIABLES registry, pc, call, result, buffer, sent, sentCls, sentOrder, intact,
          gen, received, stream, io, threads

vars == <<registry, pc, call, result, buffer, sent, sentCls, sentOrder, intact,
          gen, received, stream, io, threads>>

Call(op, cls, byteorder, value) ==
    [op |-> op, cls |-> cls, byteorder |-> byteorder, value |-> value]

NoGen == [state |-> "none", cls |-> "none", byteorder |-> "little", data |-> <<>>,
          pos |-> 0]

\* io.BytesIO: the bytes it holds and its position
BytesIO(data, pos) == [data |-> data, pos |-> pos]

\* the most calls that run at the same time
MaxThreads == 2

\* a thread before its call: the locals of encode / decode it will hold are
\* the sink list raw_attributes, the cursor, the index of the next field and
\* the attributes decoded so far; `out` is what the call returned or raised,
\* `overlap` whether another call was under way at one of its steps
NoThread ==
    [at |-> "idle", op |-> "none", byteorder |-> "little", arg |-> PyNone, i |-> 0,
     sink |-> <<>>, cursor |-> <<>>, attributes |-> <<>>, out |-> Ok(PyNone),
     overlap |-> FALSE]

\* what the caller of the stream functions wrote and read so far, and the
\* position of the buffer when its last call began
NoIO == [phase |-> "none", header |-> PyNone, items |-> <<>>, got |-> PyNone, at |-> 0]

Init ==
    /\ registry = [c \in {} |-> PyNone]
    /\ pc = 0
    /\ call = Call("none", "none", "little", PyNone)
    /\ result = Ok(PyNone)
    /\ buffer = <<>>
    /\ sent = <<>>
    /\ sentCls = "none"
    /\ sentOrder = "little"
    /\ intact = TRUE
    /\ gen = NoGen
    /\ received = <<>>
    /\ stream = BytesIO(<<>>, 0)
    /\ io = NoIO
    /\ threads = [t \in 1..MaxThreads |-> NoThread]

\* the next class statement of the program runs: Struct.__init_subclass__
\* cls.__bstruct_encoding__ = _derive(cls), or the class statement raises
Derived(op, cls, r) ==
    /\ registry' = IF r.ok
                   THEN [c \in DOMAIN registry \cup {cls} |->
                           IF c = cls THEN r.val ELSE registry[c]]
                   ELSE registry
    /\ call' = Call(op, cls, "little", PyNone)
    /\ result' = IF r.ok THEN Ok(PyNone) ELSE r

\* the classes whose class statements have run
Declared == {Program[i] : i \in 1..pc}

Declare ==
    /\ pc < Len(Program)
    /\ Derived("class", Program[pc + 1], __init_subclass__(Program[pc + 1], registry, Declared))
    /\ pc' = pc + 1
    /\ UNCHANGED <<buffer, sent, sentCls, sentOrder, intact, gen, received,
                 stream, io, threads>>

\* cls.__init_subclass__(): the hook is run once more on a class whose
\* statement has run
Recompile(cls) ==
    /\ call.op \in {"class", "recompile", "encode"}
    /\ sentCls \in {"none", cls}
    /\ Derived("recompile", cls, __init_subclass__(cls, registry, Declared))
    /\ UNCHANGED <<pc, buffer, sent, sentCls, sentOrder, intact, gen, received,
                 stream, io, threads>>

\* data = b"": the caller starts a buffer for the records of one class, which it
\* fills in one byte order before it reads it
Begin(cls, byteorder) ==
    /\ pc = Len(Program)
    /\ sentCls = "none"
    /\ cls \in DOMAIN registry
    /\ sentCls' = cls
    /\ sentOrder' = byteorder
    /\ UNCHANGED <<registry, pc, call, result, buffer, sent, intact, gen, received,
                 stream, io, threads>>

\* the caller appends the bytes a successful encode returned
Keep(value, r) ==
    /\ call' = Call("encode", sentCls, sentOrder, value)
    /\ result' = r
    /\ IF r.ok
       THEN /\ buffer' = buffer \o r.val.data
            /\ sent' = Append(sent, value)
       ELSE UNCHANGED <<buffer, sent>>

\* data = data + encode(value, byteorder)
Encode(value) ==
    /\ sentCls \in DOMAIN registry
    /\ intact
    /\ Len(sent) < MaxRecords
    /\ call.op \in {"class", "encode", "recompile"}
    /\ Keep(value, encode(registry[sentCls], value, sentOrder))
    /\ gen' = NoGen
    /\ received' = <<>>
    /\ UNCHANGED <<registry, pc, sentCls, sentOrder, intact,
                 stream, io, threads>>

\* the bytes 195 (no valid UTF-8 alone, no member of TestEnum) written over the
\* first byte of the last record, a byte cut off the end, or a zero byte added
Damaged(data, size, kind) ==
    CASE kind = "cut" -> SubSeq(data, 1, Len(data) - 1)
      [] kind = "pad" -> Append(data, 0)
      [] kind = "poison" -> [data EXCEPT ![Len(data) - size + 1] = 195]

\* the buffer reaches the caller changed on the way
Corrupt(kind) ==
    /\ sentCls \in DOMAIN registry
    /\ intact
    /\ call.op \in {"class", "encode", "recompile"}
    /\ kind \in {"cut", "poison"} => buffer # <<>>
    /\ buffer' = Damaged(buffer, get_size(registry[sentCls]), kind)
    /\ intact' = FALSE
    /\ call' = Call("none", "none", "little", PyNone)
    /\ result' = Ok(PyNone)
    /\ gen' = NoGen
    /\ received' = <<>>
    /\ UNCHANGED <<registry, pc, sent, sentCls, sentOrder,
                 stream, io, threads>>

\* decode(cls, buffer, byteorder)
Decode(byteorder) ==
    /\ sentCls \in DOMAIN registry
    /\ call' = Call("decode", sentCls, byteorder, PyNone)
    /\ result' = decode(registry[sentCls], buffer, byteorder)
    /\ gen' = NoGen
    /\ received' = <<>>
    /\ UNCHANGED <<registry, pc, buffer, sent, sentCls, sentOrder, intact,
                 stream, io, threads>>

\* it = decode_all(cls, buffer, byteorder): the generator is made, nothing runs
DecodeAll(byteorder) ==
    /\ sentCls \in DOMAIN registry
    /\ call' = Call("decode_all", sentCls, byteorder, PyNone)
    /\ result' = Ok(PyNone)
    /\ gen' = [state |-> "created", cls |-> sentCls, byteorder |-> byteorder,
               data |-> buffer, pos |-> 0]
    /\ received' = <<>>
    /\ UNCHANGED <<registry, pc, buffer, sent, sentCls, sentOrder, intact,
                 stream, io, threads>>

\* next(it): the caller takes one more record from the generator
\* the generator suspends at its yield or ends
Step(step) ==
    /\ call' = Call("next", gen.cls, gen.byteorder, PyNone)
    /\ result' = step.out
    /\ IF step.kind = "yield"
       THEN /\ gen' = [gen EXCEPT !.state = "suspended", !.pos = gen.pos + 1]
            /\ received' = Append(received, step.out.val)
       ELSE /\ gen' = [gen EXCEPT !.state = "closed"]
            /\ UNCHANGED received

GenNext ==
    /\ gen.state \in {"created", "suspended"}
    /\ Step(decode_all_next(registry[gen.cls], gen.data, gen.byteorder, gen.pos))
    /\ UNCHANGED <<registry, pc, buffer, sent, sentCls, sentOrder, intact,
                 stream, io, threads>>

Next ==
    \/ Declare
    \/ \E cls \in Declared : Recompile(cls)
    \/ \E cls \in DOMAIN registry : \E byteorder \in ByteOrders : Begin(cls, byteorder)
    \/ \E value \in Values(sentCls) : Encode(value)
    \/ \E kind \in {"cut", "pad", "poison"} : Corrupt(kind)
    \/ \E byteorder \in ByteOrders : Decode(byteorder)
    \/ \E byteorder \in ByteOrders : DecodeAll(byteorder)
    \/ GenNext

Spec == Init /\ [][Next]_vars

(***************************************************************************)
(* The stream functions.  A buffer is an io.BytesIO; each function gives   *)
(* what it returns or raises (`out`) and the buffer it leaves.             *)
(***************************************************************************)
\* buffer.write(b): the bytes go in at the position, which moves behind them
stream_write(b, data) ==
    BytesIO(SubSeq(b.data, 1, b.pos) \o data
              \o SubSeq(b.data, b.pos + Len(data) + 1, Len(b.data)),
            b.pos + Len(data))

\* the number of bytes buffer.read(size) gives: at most those that are left,
\* all of them for a negative size
Available(b, size) ==
    IF size < 0 \/ b.pos + size > Len(b.data) THEN Len(b.data) - b.pos ELSE size

\* a read that leaves the position where it was
stream_read_peek(b, size) ==
    [data |-> SubSeq(b.data, b.pos + 1, b.pos + Available(b, size)), buffer |-> b]

\* buffer.read(size)
stream_read(b, size) ==
    [data |-> SubSeq(b.data, b.pos + 1, b.pos + Available(b, size)),
     buffer |-> BytesIO(b.data, b.pos + Available(b, size))]

Returned(out, b) == [out |-> out, buffer |-> b]

\* read(cls, buffer, byteorder)
read(encoding, b, byteorder) ==
    Returned(decode(encoding, stream_read(b, encoding.size).data, byteorder),
             stream_read(b, encoding.size).buffer)

RECURSIVE list_decode_all(_, _, _, _, _)
\* list(decode_all(cls, data, byteorder)): next() until the generator ends
list_decode_all(encoding, data, byteorder, pos, acc) ==
    Let(decode_all_next(encoding, data, byteorder, pos), LAMBDA step :
    IF step.kind = "yield"
    THEN list_decode_all(encoding, data, byteorder, pos + 1, Append(acc, step.out.val))
    ELSE IF step.out.err = "StopIteration" THEN Ok(PyList(acc))
    ELSE step.out)

\* read_many(cls, buffer, count, byteorder)
read_many(encoding, b, count, byteorder) ==
    Returned(list_decode_all(encoding, stream_read(b, encoding.size * count).data,
                             byteorder, 0, <<>>),
             stream_read(b, encoding.size * count).buffer)

\* write(value, buffer, byteorder): the descriptor is that of the value's class
write(value, b, byteorder, types) ==
    Let(encode(_get_struct_encoding(TClass(value.cls), types), value, byteorder),
        LAMBDA data :
        IF data.ok THEN Returned(Ok(PyNone), stream_write(b, data.val.data))
        ELSE Returned(data, b))

RECURSIVE write_many_atomic(_, _, _, _)
\* a variant that writes nothing unless every item encodes
write_many_atomic(items, b, byteorder, types) ==
    IF items = <<>> THEN Returned(Ok(PyNone), b)
    ELSE Let(write(Head(items), b, byteorder, types), LAMBDA w :
         IF w.out.ok
         THEN Let(write_many_atomic(Tail(items), w.buffer, byteorder, types), LAMBDA rest :
              IF rest.out.ok THEN rest ELSE Returned(rest.out, b))
         ELSE w)

RECURSIVE write_many(_, _, _, _)
\* write_many(items, buffer, byteorder): the items before one that does not
\* encode are written
write_many(items, b, byteorder, types) ==
    IF items = <<>> THEN Returned(Ok(PyNone), b)
    ELSE Let(write(Head(items), b, byteorder, types), LAMBDA w :
         IF w.out.ok THEN write_many(Tail(items), w.buffer, byteorder, types)
         ELSE w)

(***************************************************************************)
(* The program of test_dynamic_list.py: the classes Header and Item, then  *)
(* a header and a list of items written to an empty BytesIO, seek(0), the  *)
(* header read and read_many with a count.  Order is declared as well, a   *)
(* record of more than one byte to read from the same stream.              *)
(***************************************************************************)
StreamProgram == <<"Order", "Header", "Item">>

\* the longest list of items written
MaxItems == 3

HeaderOf(n) == PyObj("Header", <<IntOf(n)>>)
ItemOf(n) == PyObj("Item", <<IntOf(n)>>)

\* the item values: the ends of the u8 range and the first value beyond it
ItemValues == {ItemOf(1), ItemOf(255), ItemOf(256)}

ItemLists == UNION {[1..n -> ItemValues] : n \in 0..MaxItems}

\* the counts the caller asks read_many for
Counts == -1..(MaxItems + 1)

StreamInit == Init

StreamDeclare ==
    /\ pc < Len(StreamProgram)
    /\ Derived("class", StreamProgram[pc + 1],
               __init_subclass__(StreamProgram[pc + 1], registry,
                                 {StreamProgram[i] : i \in 1..pc}))
    /\ pc' = pc + 1
    /\ UNCHANGED <<buffer, sent, sentCls, sentOrder, intact, gen, received, stream, io,
                   threads>>

\* what a stream function did: the call, its outcome, the buffer it leaves
Streamed(c, r) ==
    /\ call' = c
    /\ result' = r.out
    /\ stream' = r.buffer
    /\ UNCHANGED <<registry, pc, buffer, sent, sentCls, sentOrder, intact, gen, received,
                   threads>>

\* write(Header(n), buffer)
Write(value, byteorder) ==
    /\ pc = Len(StreamProgram)
    /\ io.phase = "none"
    /\ Streamed(Call("write", value.cls, byteorder, value),
                write(value, stream, byteorder, registry))
    /\ io' = [io EXCEPT !.phase = "header", !.header = value, !.at = stream.pos]

\* write_many(items, buffer)
WriteMany(items, byteorder) ==
    /\ io.phase = "header"
    /\ Streamed(Call("write_many", "Item", byteorder, PyList(items)),
                write_many(items, stream, byteorder, registry))
    /\ io' = [io EXCEPT !.phase = "items", !.items = items, !.at = stream.pos]

\* buffer.seek(0)
Seek ==
    /\ io.phase = "items"
    /\ Streamed(Call("seek", "none", "little", IntOf(0)),
                Returned(Ok(IntOf(0)), BytesIO(stream.data, 0)))
    /\ io' = [io EXCEPT !.phase = "rewound", !.at = stream.pos]

\* header = read(Header, buffer)
Read(cls, byteorder) ==
    /\ io.phase = "rewound"
    /\ Streamed(Call("read", cls, byteorder, PyNone),
                read(registry[cls], stream, byteorder))
    /\ io' = [io EXCEPT !.phase = "read", !.got = result', !.at = stream.pos]

\* read_many(cls, buffer, count)
ReadMany(cls, count, byteorder) ==
    /\ io.phase = "read"
    /\ Streamed(Call("read_many", cls, byteorder, IntOf(count)),
                read_many(registry[cls], stream, count, byteorder))
    /\ io' = [io EXCEPT !.phase = "done", !.at = stream.pos]

StreamNext ==
    \/ StreamDeclare
    \/ \E n \in 0..(MaxItems + 1) : \E byteorder \in ByteOrders :
         Write(HeaderOf(n), byteorder)
    \/ \E items \in ItemLists : \E byteorder \in ByteOrders : WriteMany(items, byteorder)
    \/ Seek
    \/ \E byteorder \in ByteOrders : Read("Header", byteorder)
    \/ \E cls \in {"Item", "Order"} : \E count \in Counts : \E byteorder \in ByteOrders :
         ReadMany(cls, count, byteorder)

StreamSpec == StreamInit /\ [][StreamNext]_vars

(***************************************************************************)
(* Concurrent calls.  Threads call encode and decode on the compiled class *)
(* Order; a thread may be switched out between any two steps of its call:  *)
(* after the call's first statements, and after each field's encoder or    *)
(* decoder in the loops of _derive._encode and _derive._decode.  The       *)
(* descriptor registry["Order"] is the one object the calls share.         *)
(***************************************************************************)
ThreadProgram == <<"Order">>

\* a record that encodes and one whose first field does not fit its slot
ThreadValues ==
    {PyObj("Order", <<IntOf(4660), MaxOf(16, FALSE)>>),
     PyObj("Order", <<IntOf(65536), IntOf(5)>>)}

\* the bytes of a record, and a buffer that is too short
ThreadData ==
    {PyBytes(IntBytes(IntOf(4660), 2, "little") \o IntBytes(IntOf(5), 16, "little")),
     PyBytes(<<1, 2, 3>>)}

\* the thread whose list a call appends to: raw_attributes = [] is the call's own
raw_attributes_shared(t) == 1

raw_attributes(t) == t

Busy(t) == threads[t].at \notin {"idle", "done"}

\* another call is under way while t takes a step
Overlaps(t) == threads[t].overlap \/ \E u \in 1..MaxThreads : u # t /\ Busy(u)

ThreadDeclare ==
    /\ pc < Len(ThreadProgram)
    /\ Derived("class", ThreadProgram[pc + 1],
               __init_subclass__(ThreadProgram[pc + 1], registry,
                                 {ThreadProgram[i] : i \in 1..pc}))
    /\ pc' = pc + 1
    /\ UNCHANGED <<buffer, sent, sentCls, sentOrder, intact, gen, received, stream, io,
                   threads>>

\* a step of a call: the thread's locals change, nothing else
Stepped(next) ==
    /\ threads' = next
    /\ UNCHANGED <<registry, pc, call, result, buffer, sent, sentCls, sentOrder, intact,
                   gen, received, stream, io>>

\* the call ends: it returns or raises
Return(t, out) ==
    [threads EXCEPT ![t].at = "done", ![t].out = out, ![t].overlap = Overlaps(t)]

\* encode(value, byteorder) begins: encoding = value.__bstruct_encoding__;
\* raw_attributes = []
CallEncode(t, value, byteorder) ==
    /\ pc = Len(ThreadProgram)
    /\ threads[t].at = "idle"
    /\ Stepped([[threads EXCEPT ![raw_attributes(t)].sink = <<>>]
                   EXCEPT ![t].at = "encode", ![t].op = "encode",
                          ![t].byteorder = byteorder, ![t].arg = value, ![t].i = 1,
                          ![t].overlap = Overlaps(t)])

\* what one pass of the loop of _derive._encode leaves
EncodedField(t, r) ==
    IF r.ok
    THEN [[threads EXCEPT ![raw_attributes(t)].sink = r.attrs]
            EXCEPT ![t].i = @ + 1, ![t].overlap = Overlaps(t)]
    ELSE Return(t, r)

\* encode_attribute(getattr(value, name), raw_attributes, byteorder)
EncodeField(t) ==
    /\ threads[t].at = "encode"
    /\ threads[t].i <= Len(registry[threads[t].arg.cls].encode.encoders)
    /\ Stepped(EncodedField(t,
           apply_encode(registry[threads[t].arg.cls].encode.encoders[threads[t].i],
                        threads[t].arg.attrs[threads[t].i],
                        threads[raw_attributes(t)].sink, threads[t].byteorder)))

\* return encoding.get_struct(byteorder).pack(*raw_attributes)
Pack(t) ==
    /\ threads[t].at = "encode"
    /\ threads[t].i > Len(registry[threads[t].arg.cls].encode.encoders)
    /\ Stepped(Return(t,
           Except(struct_pack(get_struct(registry[threads[t].arg.cls],
                                         threads[t].byteorder).format,
                              threads[t].byteorder,
                              threads[raw_attributes(t)].sink),
                  "struct.error", "BstructError")))

\* what unpack leaves: the cursor over the native values, or the error
Unpack(t, byteorder, data, r) ==
    IF r.ok
    THEN [threads EXCEPT ![t].at = "decode", ![t].op = "decode",
                         ![t].byteorder = byteorder, ![t].arg = data, ![t].i = 1,
                         ![t].cursor = r.val.items, ![t].attributes = <<>>,
                         ![t].overlap = Overlaps(t)]
    ELSE [Return(t, Raise("BstructError"))
            EXCEPT ![t].op = "decode", ![t].byteorder = byteorder, ![t].arg = data]

\* decode(cls, data, byteorder) begins: encoding = cls.__bstruct_encoding__;
\* raw_attributes = encoding.get_struct(byteorder).unpack(data)
CallDecode(t, data, byteorder) ==
    /\ pc = Len(ThreadProgram)
    /\ threads[t].at = "idle"
    /\ Stepped(Unpack(t, byteorder, data,
                      struct_unpack(get_struct(registry["Order"], byteorder).format,
                                    byteorder, data.data)))

\* what one pass of the comprehension of _derive._decode leaves
DecodedField(t, r) ==
    IF r.ok
    THEN [threads EXCEPT ![t].i = @ + 1, ![t].cursor = r.rest,
                         ![t].attributes = Append(@, r.val),
                         ![t].overlap = Overlaps(t)]
    ELSE Return(t, Except(r, "struct.error", "BstructError"))

\* decode_attribute(raw_attributes, byteorder)
DecodeField(t) ==
    /\ threads[t].at = "decode"
    /\ threads[t].i <= Len(registry["Order"].decode.decoders)
    /\ Stepped(DecodedField(t,
           apply_decode(registry["Order"].decode.decoders[threads[t].i],
                        threads[t].cursor, threads[t].byteorder)))

\* return cls(*attributes)
Construct(t) ==
    /\ threads[t].at = "decode"
    /\ threads[t].i > Len(registry["Order"].decode.decoders)
    /\ Stepped(Return(t, Ok(PyObj(registry["Order"].decode.cls, threads[t].attributes))))

ThreadNext ==
    \/ ThreadDeclare
    \/ \E t \in 1..MaxThreads : \E value \in ThreadValues : \E byteorder \in ByteOrders :
         CallEncode(t, value, byteorder)
    \/ \E t \in 1..MaxThreads : EncodeField(t)
    \/ \E t \in 1..MaxThreads : Pack(t)
    \/ \E t \in 1..MaxThreads : \E data \in ThreadData : \E byteorder \in ByteOrders :
         CallDecode(t, data, byteorder)
    \/ \E t \in 1..MaxThreads : DecodeField(t)
    \/ \E t \in 1..MaxThreads : Construct(t)

ThreadSpec == Init /\ [][ThreadNext]_vars

(***************************************************************************)
(* What a declared type says about a value: its leaves (the fields that    *)
(* fill one slot each, with the encoding that fills it), its arrays, and   *)
(* its byte size.                                                          *)
(***************************************************************************)
Other(byteorder) == IF byteorder = "little" THEN "big" ELSE "little"

\* the encoding and the array length named in an Annotated's metadata
EncodingOf(meta) == meta[CHOOSE i \in 1..Len(meta) : IsEncoding(meta[i])].enc
LengthOf(meta) == meta[CHOOSE i \in 1..Len(meta) : meta[i].m = "Array"].length

WidthOf(enc) == SumSizes(enc.format)
SignedOf(enc) == enc.format[1].code \in SignedCodes \/ enc.decode = Fn("_decode_int")

Leaf(target, enc, v) == [target |-> target, enc |-> enc, v |-> v]

RECURSIVE Leaves(_, _)
Leaves(type, v) ==
    IF type = TClass("bool") THEN <<Leaf(type, Encodings.bool, v)>>
    ELSE IF type.k = "class"
    THEN IF v.t = "obj" /\ v.cls = type.name
         THEN Concat([i \in 1..Len(v.attrs) |->
                        Leaves(ClassFields(type.name)[i].type, v.attrs[i])])
         ELSE <<>>
    ELSE IF type.base.k = "list_of"
    THEN IF v.t = "list"
         THEN Concat([i \in 1..Len(v.items) |-> Leaves(type.base.inner, v.items[i])])
         ELSE <<>>
    ELSE <<Leaf(type.base, EncodingOf(type.meta), v)>>

\* every Array(N) field of the value, at any depth, with the sequence it holds
\* (a value that is no list holds no items of the declared type)
RECURSIVE Arrays(_, _)
Arrays(type, v) ==
    IF type = TClass("bool") THEN <<>>
    ELSE IF type.k = "class"
    THEN IF v.t = "obj" /\ v.cls = type.name
         THEN Concat([i \in 1..Len(v.attrs) |->
                        Arrays(ClassFields(type.name)[i].type, v.attrs[i])])
         ELSE <<>>
    ELSE IF type.base.k = "list_of"
    THEN IF v.t = "list"
         THEN <<[length |-> LengthOf(type.meta), items |-> v.items]>>
              \o Concat([i \in 1..Len(v.items) |-> Arrays(type.base.inner, v.items[i])])
         ELSE <<[length |-> LengthOf(type.meta), items |-> <<>>]>>
    ELSE <<>>

\* the byte size the declaration announces: the sum of its slots (for a class
\* without a descriptor of its own, those of the base whose descriptor it inherits)
RECURSIVE TypeSize(_)
RECURSIVE FieldsSize(_)
FieldsSize(fields) ==
    IF fields = <<>> THEN 0 ELSE TypeSize(Head(fields).type) + FieldsSize(Tail(fields))

TypeSize(type) ==
    IF type = TClass("bool") THEN 1
    ELSE IF type.k = "class" THEN FieldsSize(ClassFields(mro_lookup(type.name, registry)))
    ELSE IF type.base.k = "list_of" THEN LengthOf(type.meta) * TypeSize(type.base.inner)
    ELSE SumSizes(EncodingOf(type.meta).format)

HasWrongArray(cls, v) ==
    \E i \in 1..Len(Arrays(TClass(cls), v)) :
        Len(Arrays(TClass(cls), v)[i].items) # Arrays(TClass(cls), v)[i].length

IntOutOfRange(l) ==
    l.target = TClass("int") /\ l.v.t = "int"
    /\ ~IntFits(l.v, WidthOf(l.enc), SignedOf(l.enc))

HasIntOutOfRange(cls, v) ==
    \E i \in 1..Len(Leaves(TClass(cls), v)) : IntOutOfRange(Leaves(TClass(cls), v)[i])

\* |d| < 10**23, within the 79 integer bits of an I80F48
DecimalInRange(d) == d.coef = <<>> \/ Len(d.coef) + d.exp <= 23

\* p holds the digits of coef * 2**48: d * 2**48 is an integer, and d and that
\* integer have at most 28 significant digits each
DecimalExactWith(d, p) ==
    /\ d.coef[Len(d.coef)] # 0
    /\ Len(d.coef) <= 28
    /\ Len(StripTrailingZeros(p)) <= 28
    /\ d.exp < 0 => /\ -d.exp < Len(p)
                    /\ \A i \in (Len(p) + d.exp + 1)..Len(p) : p[i] = 0

DecimalExact(d) == d.coef = <<>> \/ DecimalExactWith(d, MulPow(d.coef, 65536, 3))

\* the leaf holds a value of its declared type that fits its slot
LeafValid(l) ==
    CASE l.target = TClass("bool") -> l.v.t = "bool"
      [] l.target = TClass("int") ->
            l.v.t = "int" /\ IntFits(l.v, WidthOf(l.enc), SignedOf(l.enc))
      [] l.target = TClass("str") ->
            /\ l.v.t = "str"
            /\ \A i \in 1..Len(l.v.chars) : ~IsSurrogate(l.v.chars[i])
            /\ Len(utf8_bytes(l.v.chars)) <= WidthOf(l.enc)
      [] l.target = TClass("bytes") ->
            l.v.t = "bytes" /\ Len(l.v.data) <= WidthOf(l.enc)
      [] l.target = TClass("Decimal") -> l.v.t = "Decimal" /\ DecimalInRange(l.v)
      [] l.target = TClass("Range") ->
            /\ l.v.t = "obj" /\ l.v.cls = "Range"
            /\ \A i \in 1..2 : l.v.attrs[i].t = "int" /\ IntFits(l.v.attrs[i], 1, FALSE)
            /\ int_lt(l.v.attrs[1], l.v.attrs[2])
      [] OTHER ->
            /\ l.v.t = "enum" /\ l.v.cls = l.target.name
            /\ ~l.v.member.neg /\ l.v.member.mag \in EnumMembers(l.target.name)

\* the slot's bytes stand for the leaf's value and for no other
LeafExact(l) ==
    /\ LeafValid(l)
    /\ l.target = TClass("str") => (l.v.chars = <<>> \/ l.v.chars[Len(l.v.chars)] # 0)
    /\ l.target = TClass("bytes") => Len(l.v.data) = WidthOf(l.enc)
    /\ l.target = TClass("Decimal") => DecimalExact(l.v)

Valid(cls, v) ==
    /\ ~HasWrongArray(cls, v)
    /\ \A i \in 1..Len(Leaves(TClass(cls), v)) : LeafValid(Leaves(TClass(cls), v)[i])

Exact(cls, v) ==
    /\ ~HasWrongArray(cls, v)
    /\ \A i \in 1..Len(Leaves(TClass(cls), v)) : LeafExact(Leaves(TClass(cls), v)[i])

\* the caller decoded, in the byte order of the encoding, the bytes of one record
DecodedOne ==
    /\ call.op = "decode"
    /\ intact
    /\ Len(sent) = 1
    /\ call.byteorder = sentOrder

(***************************************************************************)
(* C1  Round trip.                                                         *)
(***************************************************************************)
\* C1 as the spec states it: for every valid value v of a compiled record (each
\* field of its declared type, fitting its slot, each array of its declared
\* length) and every byte order b, decode(cls, encode(v, b), b) = v.
C1_RoundTripOfValid ==
    (DecodedOne /\ Valid(sentCls, sent[1])) => result = Ok(sent[1])

\* C1 amended: encode(v, b) succeeds and decode(cls, encode(v, b), b) = v for
\* every value v whose slots stand for it exactly: besides being valid, a str
\* does not end in U+0000, a bytes value has exactly n bytes, and a Decimal d
\* with |d| < 10**23 has d * 2**48 an integer, d and d * 2**48 of at most 28
\* significant digits.
C1_RoundTrip ==
    /\ (call.op = "encode" /\ Exact(call.cls, call.value)) => result.ok
    /\ (DecodedOne /\ Exact(sentCls, sent[1])) => result = Ok(sent[1])

C1_RoundTripWitness ==
    /\ DecodedOne
    /\ sentCls = "Outer"
    /\ sentOrder = "big"
    /\ Exact(sentCls, sent[1])
    /\ result = Ok(sent[1])

(***************************************************************************)
(* C2  Fixed size.                                                         *)
(***************************************************************************)
SameLength(r, data) == r.ok /\ Len(r.val.data) = Len(data)

\* C2: for every compiled record and every value that encodes successfully, the
\* bytes of encode(v, little) and of encode(v, big) are get_size(cls) long, and
\* get_size(cls) is the sum of the sizes of the slots of the flattened layout, the
\* same for both packers.
C2_FixedSize ==
    /\ \A cls \in DOMAIN registry :
         /\ get_size(registry[cls]) = TypeSize(TClass(cls))
         /\ get_size(registry[cls]) = SumSizes(get_struct(registry[cls], "little").format)
         /\ get_size(registry[cls]) = SumSizes(get_struct(registry[cls], "big").format)
    /\ (call.op = "encode" /\ result.ok) =>
         /\ Len(result.val.data) = get_size(registry[call.cls])
         /\ SameLength(encode(registry[call.cls], call.value, Other(call.byteorder)),
                       result.val.data)

C2_FixedSizeWitness ==
    /\ call.op = "encode"
    /\ call.cls = "Outer"
    /\ result.ok
    /\ Len(result.val.data) = 7
    /\ get_size(registry["Ints"]) = 126

(***************************************************************************)
(* C3  Cross-order divergence.                                             *)
(***************************************************************************)
\* the int whose `width` bytes are those of v in reverse
Swapped(v, width, signed) ==
    IntOfBytes(Reverse(IF v.neg THEN TwosComplement(Padded(v.mag, width))
                       ELSE Padded(v.mag, width)),
               signed)

SwappedLeaf(l) == Swapped(l.v, WidthOf(l.enc), SignedOf(l.enc))

\* the caller decoded the bytes of one record in the byte order the encoding did
\* not use
DecodedAcross ==
    /\ call.op = "decode"
    /\ intact
    /\ Len(sent) = 1
    /\ call.byteorder = Other(sentOrder)

\* C3: a record of integer fields encoded in one byte order and decoded in the
\* other comes back with each field, separately, the int whose fixed-width bytes
\* are the reverse of the original's; 0xFF00 comes back 0x00FF and
\* 0xFFFFFFFFFFFFFFFF0000000000000000 comes back 0x0000000000000000FFFFFFFFFFFFFFFF,
\* from little to big and from big to little.
C3_CrossOrder ==
    (DecodedAcross /\ sentCls \in {"Order", "Ints"}) =>
        /\ result.ok
        /\ result.val.cls = sentCls
        /\ Len(result.val.attrs) = Len(sent[1].attrs)
        /\ \A i \in 1..Len(sent[1].attrs) :
             result.val.attrs[i] = SwappedLeaf(Leaves(TClass(sentCls), sent[1])[i])
        /\ sent[1] = PyObj("Order", <<IntOf(65280), HighHalf>>) =>
             result.val = PyObj("Order", <<IntOf(255), PyInt(FALSE, Ones(8))>>)

C3_CrossOrderWitness ==
    /\ DecodedAcross
    /\ sentOrder = "big"
    /\ sent[1] = PyObj("Order", <<IntOf(65280), HighHalf>>)
    /\ result.val = PyObj("Order", <<IntOf(255), PyInt(FALSE, Ones(8))>>)

(***************************************************************************)
(* C4  Nested flattening.                                                  *)
(***************************************************************************)
\* the bytes of one field alone: its encoder's values packed in its own format
FieldBytes(type, v, byteorder) ==
    Try(_resolve_encoding(type, registry), LAMBDA enc :
    Try(apply_encode(enc.val.encode, v, <<>>, byteorder), LAMBDA raw :
    struct_pack(enc.val.format, byteorder, raw.attrs)))

Joined(before, nested, after, data) ==
    /\ before.ok /\ nested.ok /\ after.ok
    /\ data = before.val.data \o nested.val.data \o after.val.data

\* C4: for the outer record with the nested record field `inner`, every value
\* and every byte order b, encode(outer, b) is the bytes of the field before
\* `inner`, then encode(outer.inner, b), then the bytes of the field after it,
\* with nothing between; decode rebuilds outer.inner from exactly those bytes.
C4_NestedFlattening ==
    /\ (call.op = "encode" /\ call.cls = "Outer" /\ result.ok) =>
         Joined(FieldBytes(ClassFields("Outer")[1].type, call.value.attrs[1],
                           call.byteorder),
                encode(registry["Inner"], call.value.attrs[2], call.byteorder),
                FieldBytes(ClassFields("Outer")[3].type, call.value.attrs[3],
                           call.byteorder),
                result.val.data)
    /\ (call.op = "decode" /\ sentCls = "Outer" /\ result.ok) =>
         Ok(result.val.attrs[2]) =
             decode(registry["Inner"],
                    SubSeq(buffer, TypeSize(ClassFields("Outer")[1].type) + 1,
                           TypeSize(ClassFields("Outer")[1].type)
                           + get_size(registry["Inner"])),
                    call.byteorder)

(***************************************************************************)
(* C5  Array cardinality.                                                  *)
(***************************************************************************)
\* C5: whatever the other fields of the record are, encode raises BstructError
\* and returns no bytes when some Array(N) field of the value holds a sequence
\* of a length other than N; with exactly N elements in every array field it
\* succeeds and decode gives the same sequences back.
C5_ArrayCardinality ==
    /\ (call.op = "encode" /\ HasWrongArray(call.cls, call.value)) =>
         result = Raise("BstructError")
    /\ (call.op = "encode" /\ Valid(call.cls, call.value)) => result.ok
    /\ (DecodedOne /\ Valid(sentCls, sent[1]) /\ result.ok) =>
         \A i \in 1..Len(Arrays(TClass(sentCls), sent[1])) :
             Arrays(TClass(sentCls), result.val)[i] = Arrays(TClass(sentCls), sent[1])[i]

(***************************************************************************)
(* C6  Multi-record decode.                                                *)
(***************************************************************************)
\* the caller iterates decode_all over the bytes of the records it encoded, in
\* the byte order of the encoding
IteratingAll ==
    /\ gen.state \in {"suspended", "closed"}
    /\ intact
    /\ gen.byteorder = sentOrder

\* C6 as the spec states it: for every compiled record type, every byte order b
\* and every list of valid records v1..vk, k >= 0, decode_all over
\* encode(v1, b) + ... + encode(vk, b) yields exactly k records, v1..vk in order.
C6_DecodeAllOfValid ==
    (IteratingAll /\ \A i \in 1..Len(sent) : Valid(sentCls, sent[i])) =>
        /\ received = SubSeq(sent, 1, Len(received))
        /\ gen.state = "closed" => (result = Raise("StopIteration") /\ received = sent)

\* C6 amended: for every compiled record type of a size above zero, every byte
\* order b and every list v1..vk, k >= 0, of values whose slots stand for them
\* exactly (as in C1 amended), decode_all over encode(v1, b) + ... + encode(vk, b)
\* yields exactly k records, v1..vk in order, and then ends.
C6_DecodeAll ==
    (/\ IteratingAll
     /\ get_size(registry[sentCls]) > 0
     /\ \A i \in 1..Len(sent) : Exact(sentCls, sent[i])) =>
        /\ received = SubSeq(sent, 1, Len(received))
        /\ gen.state = "closed" => (result = Raise("StopIteration") /\ received = sent)

C6_DecodeAllWitness ==
    /\ IteratingAll
    /\ gen.state = "closed"
    /\ sentCls = "Text"
    /\ Len(sent) = 2
    /\ sent[1] # sent[2]
    /\ \A i \in 1..Len(sent) : Exact(sentCls, sent[i])
    /\ result = Raise("StopIteration")
    /\ received = sent

(***************************************************************************)
(* C7  Wrong buffer length.                                                *)
(***************************************************************************)
NotMultiple(n, size) == IF size = 0 THEN n # 0 ELSE n % size # 0

\* C7: decode raises BstructError whenever the buffer's length differs from
\* get_size(cls); iterating decode_all raises BstructError whenever the buffer's
\* length is no exact multiple of get_size(cls); neither produces a record.
C7_WrongLength ==
    /\ (call.op = "decode" /\ Len(buffer) # get_size(registry[call.cls])) =>
         result = Raise("BstructError")
    /\ (/\ gen.state \in {"suspended", "closed"}
        /\ NotMultiple(Len(gen.data), get_size(registry[gen.cls]))) =>
         /\ gen.state = "closed"
         /\ result = Raise("BstructError")
         /\ received = <<>>

C7_WrongLengthWitness ==
    /\ gen.state = "closed"
    /\ Len(sent) = 2
    /\ Len(gen.data) = 2 * get_size(registry[gen.cls]) + 1
    /\ result = Raise("BstructError")
    /\ received = <<>>

(***************************************************************************)
(* C8  No partial decode.                                                  *)
(***************************************************************************)
\* C8: a decode fully succeeds or delivers nothing: when decode_all runs over a
\* buffer of several records of which a later one cannot be decoded, the caller
\* has received none of the earlier records when the error reaches it.
C8_NoPartialDecode ==
    (/\ gen.state = "closed"
     /\ result # Raise("StopIteration")) => received = <<>>

(***************************************************************************)
(* C9  Out-of-range integers.                                              *)
(***************************************************************************)
\* C9: for each of u8..u256 and i8..i256 and both byte orders, encode of a
\* record with an int field outside the range of its width and signedness raises
\* BstructError, the same for the native widths and for 128 and 256 bits, and
\* returns no bytes.
C9_IntOutOfRange ==
    (call.op = "encode" /\ HasIntOutOfRange(call.cls, call.value)) =>
        result = Raise("BstructError")

(***************************************************************************)
(* C10  Enum decode.                                                       *)
(***************************************************************************)
\* C10: for the field declared as TestEnum over u8, decode returns the member
\* whose value is the decoded integer when there is one and raises BstructError
\* when there is none; encode writes the bytes u8 writes for the member's value.
C10_EnumDecode ==
    /\ (/\ call.op = "decode"
        /\ call.cls = "Tagged"
        /\ Len(buffer) = get_size(registry["Tagged"])) =>
         IF <<buffer[1]>> \in EnumMembers("TestEnum")
         THEN result.ok /\ result.val.attrs[1] = PyEnum("TestEnum", IntOf(buffer[1]))
         ELSE result = Raise("BstructError")
    /\ (call.op = "encode" /\ call.cls = "Tagged" /\ result.ok) =>
         Ok(PyBytes(SubSeq(result.val.data, 1, 1))) =
             FieldBytes(IntAlias(Encodings.u8), call.value.attrs[1].member, call.byteorder)

(***************************************************************************)
(* C11  Codec / type mismatch.                                             *)
(***************************************************************************)
\* the field is Annotated[T, enc] for a class T that is no IntEnum, and enc
\* targets another type than T
Mismatch(field) ==
    /\ field.type.k = "Annotated"
    /\ field.type.base.k = "class"
    /\ field.type.base.name \notin IntEnums
    /\ \E i \in 1..Len(field.type.meta) : IsEncoding(field.type.meta[i])
    /\ EncodingOf(field.type.meta).target # field.type.base

\* field i of the class is such a field, and the fields before it resolve
MismatchAt(cls, i) ==
    /\ Mismatch(ClassFields(cls)[i])
    /\ resolve_fields(SubSeq(ClassFields(cls), 1, i - 1), registry, <<>>).ok

Names(r, type) ==
    /\ "msg" \in DOMAIN r
    /\ \E k \in 1..Len(r.msg) : r.msg[k] = ClassStr(type)

\* C11: the class statement of a record with a field Annotated[T, enc] whose
\* enc targets a type other than T raises a TypeError whose message names the
\* expected target T and the found target of enc (str and int for
\* Annotated[str, Encodings.u8]), and the record gets no descriptor.
C11_Mismatch ==
    call.op = "class" =>
        \A i \in {k \in 1..Len(ClassFields(call.cls)) : MismatchAt(call.cls, k)} :
            /\ ~result.ok
            /\ result.err = "TypeError"
            /\ Names(result, ClassFields(call.cls)[i].type.base)
            /\ Names(result, EncodingOf(ClassFields(call.cls)[i].type.meta).target)
            /\ call.cls \notin DOMAIN registry

\* what holds of the code: TypeError, no descriptor, and a message that names
\* the found target and the class of the encoding object
C11_MismatchFound ==
    call.op = "class" =>
        \A i \in {k \in 1..Len(ClassFields(call.cls)) : MismatchAt(call.cls, k)} :
            /\ ~result.ok
            /\ result.err = "TypeError"
            /\ Names(result, EncodingOf(ClassFields(call.cls)[i].type.meta).target)
            /\ \E k \in 1..Len(result.msg) :
                 result.msg[k] = ObjectStr(EncodingOf(ClassFields(call.cls)[i].type.meta))
            /\ call.cls \notin DOMAIN registry

(***************************************************************************)
(* C12  Missing codec information.                                         *)
(***************************************************************************)
\* (a) a plain type that is neither bool nor a compiled record
PlainType(type) ==
    type.k = "class" /\ type # TClass("bool") /\ ~_has_struct_encoding(type, registry)

\* (b) an Annotated type without an encoding, (c) an Annotated bare list,
\* (d) an Annotated list[X] without an Array length
BareAnnotated(type) ==
    /\ type.k = "Annotated"
    /\ \/ /\ type.base.k \in {"class", "NewType"}
          /\ type.base # TClass("list")
          /\ \A i \in 1..Len(type.meta) : ~IsEncoding(type.meta[i])
       \/ type.base = TClass("list")
       \/ /\ type.base.k = "list_of"
          /\ \A i \in 1..Len(type.meta) : type.meta[i].m # "Array"

\* the first field of the class that does not resolve
FirstFailing(cls) ==
    {i \in 1..Len(ClassFields(cls)) :
        /\ resolve_fields(SubSeq(ClassFields(cls), 1, i - 1), registry, <<>>).ok
        /\ ~_resolve_encoding(ClassFields(cls)[i].type, registry).ok}

\* C12: the class statement of a record fails with TypeError whenever a field
\* is (a) a plain type that is neither bool nor a compiled record, (b) an
\* Annotated type without an encoding, (c) an Annotated bare list or (d) an
\* Annotated list[X] without an Array length.
C12_MissingCodec ==
    call.op = "class" =>
        \A i \in FirstFailing(call.cls) :
            (\/ PlainType(ClassFields(call.cls)[i].type)
             \/ BareAnnotated(ClassFields(call.cls)[i].type)) =>
                (~result.ok /\ result.err = "TypeError")

\* what holds of the code: TypeError in the cases (b), (c) and (d), and the
\* AssertionError of `assert False` in the case (a)
C12_MissingCodecAnnotated ==
    call.op = "class" =>
        \A i \in FirstFailing(call.cls) :
            /\ BareAnnotated(ClassFields(call.cls)[i].type) =>
                 (~result.ok /\ result.err = "TypeError")
            /\ PlainType(ClassFields(call.cls)[i].type) =>
                 result = Raise("AssertionError")

(***************************************************************************)
(* C13  Eager and total compilation.                                       *)
(***************************************************************************)
EncodingAt(cls, i) == _resolve_encoding(ClassFields(cls)[i].type, registry)

\* the descriptor of cls holds the format fragment, the decoder and the encoder
\* of each of its fields, in declaration order
FullyResolved(cls) ==
    /\ \A i \in 1..Len(ClassFields(cls)) : EncodingAt(cls, i).ok
    /\ registry[cls].format =
         Concat([i \in 1..Len(ClassFields(cls)) |-> EncodingAt(cls, i).val.format])
    /\ registry[cls].decode =
         StructDecode(cls, [i \in 1..Len(ClassFields(cls)) |->
                              EncodingAt(cls, i).val.decode])
    /\ registry[cls].encode =
         StructEncode([i \in 1..Len(ClassFields(cls)) |-> EncodingAt(cls, i).val.encode],
                      FieldNames(cls))

\* the class statement of cls has run and one of its fields does not resolve
Fails(cls) ==
    /\ cls \in Declared
    /\ \E i \in 1..Len(ClassFields(cls)) : ~EncodingAt(cls, i).ok

\* the resolver finds a descriptor for cls, or a published record nests cls
Found(cls) ==
    \/ _has_struct_encoding(TClass(cls), registry)
    \/ \E d \in DOMAIN registry :
         \E i \in 1..Len(ClassFields(d)) : ClassFields(d)[i].type = TClass(cls)

Kept ==
    \A cls \in DOMAIN registry : cls \in DOMAIN registry' /\ registry'[cls] = registry[cls]

\* C14: the descriptor of a record type is created once; no operation after
\* that replaces or changes it, and the attempt to compile a compiled type once
\* more is rejected with the configuration error, a TypeError, the descriptor
\* unchanged.
C14_WriteOnce ==
    /\ [][Kept]_vars
    /\ [](call.op = "recompile" /\ call.cls \in DOMAIN registry =>
            ~result.ok /\ result.err = "TypeError")

\* what holds of the code: descriptors stay as they are, and the attempt is
\* stopped by the assert of line 402
C14_WriteOnceAssert ==
    /\ [][Kept]_vars
    /\ [](call.op = "recompile" /\ call.cls \in DOMAIN registry =>
            result = Raise("AssertionError"))

(***************************************************************************)
(* C15  Stream round trip of dynamic content.                              *)
(***************************************************************************)
\* the header written holds the number of the items, and every item is valid
Faithful ==
    /\ io.header = HeaderOf(Len(io.items))
    /\ \A i \in 1..Len(io.items) : Valid("Item", io.items[i])

\* the bytes of the stream past the position where the last call began
Consumed == stream.pos - io.at

\* C15: Header(n) written with write and n valid items with write_many to an
\* empty stream, the stream rewound: read gives the header and read_many with
\* count = header.item_count gives the same items in the same order.  Each
\* write appends byte_size bytes, read consumes byte_size bytes and read_many
\* byte_size * count bytes, and the stream ends positioned at its end.
C15_StreamRoundTrip ==
    /\ (call.op = "write" /\ result.ok) =>
         /\ Len(stream.data) = get_size(registry["Header"])
         /\ stream.pos = Len(stream.data)
    /\ (call.op = "write_many" /\ result.ok) =>
         /\ Len(stream.data) =
              get_size(registry["Header"]) + Len(io.items) * get_size(registry["Item"])
         /\ stream.pos = Len(stream.data)
    /\ call.op = "read" =>
         /\ result = Ok(io.header)
         /\ Consumed = get_size(registry["Header"])
    /\ (call.op = "read_many" /\ call.cls = "Item" /\ Faithful
           /\ call.value = io.got.val.attrs[1]) =>
         /\ result = Ok(PyList(io.items))
         /\ Consumed = get_size(registry["Item"]) * Len(io.items)
         /\ stream.pos = Len(stream.data)

C15_StreamRoundTripWitness ==
    /\ call.op = "read_many" /\ call.cls = "Item" /\ call.byteorder = "big"
    /\ Faithful
    /\ call.value = io.got.val.attrs[1]
    /\ io.items = <<ItemOf(255), ItemOf(1)>>
    /\ result = Ok(PyList(io.items))
    /\ stream = BytesIO(<<2, 255, 1>>, 3)

(***************************************************************************)
(* C16  read_many reads and decodes count instances.                       *)
(***************************************************************************)
\* the bytes that were left in the buffer when the last call began
Remaining == Len(stream.data) - io.at

Asked(count) == call.op = "read_many" /\ call.value = IntOf(count)

\* C16: whenever read_many(cls, buffer, count) returns, its result holds count
\* records; when fewer than count * byte_size bytes are left in the buffer, a
\* smaller whole number of records included, the call fails.
C16_ReadManyCount ==
    \A count \in Counts \cap Nat :
        Asked(count) =>
           /\ result.ok => Len(result.val.items) = count
           /\ Remaining < count * get_size(registry[call.cls]) => ~result.ok

\* what holds of the code: read_many returns the records of the bytes it got,
\* count of them when that many are left, all that are left when they are a
\* smaller whole number of records or the count is negative; it fails when
\* the bytes it got are no whole number of records
C16_ReadManyAvailable ==
    \A count \in Counts :
        Asked(count) =>
           /\ result.ok =>
                /\ Consumed = Len(result.val.items) * get_size(registry[call.cls])
                /\ \/ Len(result.val.items) = count
                   \/ Consumed = Remaining
           /\ ~result.ok =>
                /\ result = Raise("BstructError")
                /\ Consumed % get_size(registry[call.cls]) # 0

(***************************************************************************)
(* C17  External codecs.                                                   *)
(***************************************************************************)
\* the bytes of the two slots of a Range
RangeBytes(v) == IntBytes(v.attrs[1], 1, "little") \o IntBytes(v.attrs[2], 1, "little")

\* C17: for a field Annotated[Range, CustomEncoding.create(Range, FIELDS,
\* decode_range, encode_range)] the format of the field is the concatenation of
\* the formats of FIELDS in order; encode packs the native values the user's
\* encode appended at the position of the field (Range(1, 2) gives the bytes
\* 1, 2); decode hands the user's decode the values of those slots in order, so
\* that decoding the encoded record gives the external value back.
C17_ExternalCodec ==
    /\ RangeEncoding.format = FIELDS[1].format \o FIELDS[2].format
    /\ "Ranged" \in DOMAIN registry => registry["Ranged"].format = RangeEncoding.format
    /\ "Framed" \in DOMAIN registry =>
         registry["Framed"].format =
            Encodings.u16.format \o RangeEncoding.format \o Encodings.u8.format
    /\ (call.op = "encode" /\ call.cls = "Ranged" /\ Valid("Ranged", call.value)) =>
         result = Ok(PyBytes(RangeBytes(call.value.attrs[1])))
    /\ (call.op = "encode" /\ call.cls = "Framed" /\ Valid("Framed", call.value)) =>
         result = Ok(PyBytes(IntBytes(call.value.attrs[1], 2, call.byteorder)
                             \o RangeBytes(call.value.attrs[2])
                             \o IntBytes(call.value.attrs[3], 1, call.byteorder)))
    /\ (DecodedOne /\ sentCls \in {"Ranged", "Framed"} /\ Valid(sentCls, sent[1])) =>
         result = Ok(sent[1])

C17_ExternalCodecWitness ==
    /\ DecodedOne
    /\ sent = <<PyObj("Ranged", <<RangeOf(1, 2)>>)>>
    /\ buffer = <<1, 2>>
    /\ result = Ok(sent[1])

(***************************************************************************)
(* C18  Decimal precision of the I80F48 field.                             *)
(***************************************************************************)
\* x * 2**48, exactly
Scaled(x) == IF x.coef = <<>> THEN x ELSE PyDec(x.neg, MulPow(x.coef, 65536, 3), x.exp)

\* the digits of d behind the point
Fraction(d) ==
    IF d.exp >= 0 THEN <<>>
    ELSE IF -d.exp >= Len(d.coef) THEN Zeros(-d.exp - Len(d.coef)) \o d.coef
    ELSE SubSeq(d.coef, Len(d.coef) + d.exp + 1, Len(d.coef))

Integral(d) == \A i \in 1..Len(Fraction(d)) : Fraction(d)[i] = 0

\* the integers nearest to d: int(d), or the next one away from zero when the
\* fraction is a half or more
Nearest(d) ==
    LET down == decimal_int(d)
        up == PyInt(d.neg, MulAdd(down.mag, 256, 1, 1))
        half == <<5>> \o Zeros(Len(Fraction(d)) - 1)
    IN IF Integral(d) \/ Fraction(d)[1] < 5 THEN {down}
       ELSE IF Fraction(d) = half THEN {down, up}
       ELSE {up}

\* k / 2**48, exactly
Quotient(k) ==
    Canonical(PyDec(k.neg, Digits(MulPowLimbs(Rebase(k.mag, 256, 10000, <<>>), 15625, 8)),
                    -48))

\* C18: for every integral value n within the range of an I80F48 field,
\* decoding the encoding of n gives exactly n; for every fractional value x
\* within range, decoding the encoding of x gives the multiple of 1/2**48
\* nearest to x.
C18_DecimalPrecision ==
    (DecodedOne /\ sentCls = "Fixed" /\ DecimalInRange(sent[1].attrs[1])) =>
       /\ result.ok
       /\ Integral(sent[1].attrs[1]) =>
            Canonical(result.val.attrs[1]) = Canonical(sent[1].attrs[1])
       /\ ~Integral(sent[1].attrs[1]) =>
            \E k \in Nearest(Scaled(sent[1].attrs[1])) : result.val.attrs[1] = Quotient(k)

\* what holds of the code: a value d with d * 2**48 an integer, d and d * 2**48
\* of at most 28 significant digits, comes back as it was
C18_DecimalPrecisionExact ==
    (DecodedOne /\ sentCls = "Fixed" /\ DecimalInRange(sent[1].attrs[1])
       /\ DecimalExact(sent[1].attrs[1])) =>
       /\ result = Ok(sent[1])
       /\ result.val.attrs[1] \in {Quotient(k) : k \in Nearest(Scaled(sent[1].attrs[1]))}

(***************************************************************************)
(* C20  Slot accounting.                                                   *)
(***************************************************************************)
\* the encoding of the i-th field of a compiled record
FieldEncoding(cls, i) == EncodingAt(cls, i).val

\* the number of slots before the i-th field
Offset(cls, i) == Len(Concat([j \in 1..(i - 1) |-> FieldEncoding(cls, j).format]))

\* the native values struct.unpack gives for the bytes of a record
Unpacked(cls, data, byteorder) ==
    struct_unpack(get_struct(registry[cls], byteorder).format,
                  get_struct(registry[cls], byteorder).byteorder, data).val.items

\* the cursor from the first slot of the i-th field on
CursorAt(cls, i, raw) == SubSeq(raw, Offset(cls, i) + 1, Len(raw))

\* the field's encoder appends, and its decoder started at the field's first
\* slot takes, as many native values as the field's format has slots
SlotsMatch(cls, i, value, raw, byteorder) ==
    /\ apply_encode(FieldEncoding(cls, i).encode, value.attrs[i], <<>>, byteorder).ok
    /\ Len(apply_encode(FieldEncoding(cls, i).encode, value.attrs[i], <<>>,
                        byteorder).attrs)
         = Len(FieldEncoding(cls, i).format)
    /\ apply_decode(FieldEncoding(cls, i).decode, CursorAt(cls, i, raw), byteorder).ok
    /\ apply_decode(FieldEncoding(cls, i).decode, CursorAt(cls, i, raw), byteorder).rest
         = CursorAt(cls, i + 1, raw)
    /\ Len(CursorAt(cls, i, raw)) - Len(CursorAt(cls, i + 1, raw))
         = Len(FieldEncoding(cls, i).format)

\* C20: for every encoding produced by resolution and every valid value, the
\* number of native values its encode appends to the sink equals the number its
\* decode takes from the cursor, and both equal the number of slots of its
\* format; in a record decode each field decoder starts at its own first slot
\* and the cursor is exhausted after the last field.
C20_SlotAccounting ==
    (call.op = "encode" /\ Valid(call.cls, call.value)) =>
       /\ result.ok
       /\ \A i \in 1..Len(ClassFields(call.cls)) :
            SlotsMatch(call.cls, i, call.value,
                       Unpacked(call.cls, result.val.data, call.byteorder), call.byteorder)
       /\ Len(Unpacked(call.cls, result.val.data, call.byteorder))
            = Len(registry[call.cls].format)
       /\ apply_decode(registry[call.cls].decode,
                       Unpacked(call.cls, result.val.data, call.byteorder),
                       call.byteorder).rest = <<>>

C20_SlotAccountingWitness ==
    /\ call.op = "encode" /\ call.cls = "Outer" /\ Valid(call.cls, call.value)
    /\ result.ok
    /\ Len(registry["Outer"].format) = 5
    /\ Offset("Outer", 3) = 4
    /\ SlotsMatch("Outer", 2, call.value,
                  Unpacked("Outer", result.val.data, call.byteorder), call.byteorder)

(***************************************************************************)
(* C19  Concurrent use of a published descriptor.                          *)
(***************************************************************************)
\* what the call of thread t returns when it runs alone
Alone(t) ==
    IF threads[t].op = "encode"
    THEN encode(registry[threads[t].arg.cls], threads[t].arg, threads[t].byteorder)
    ELSE decode(registry["Order"], threads[t].arg.data, threads[t].byteorder)

\* a step of a call changes the state of that call only and not the descriptor
OwnStateOnly ==
    /\ pc = Len(ThreadProgram) => registry' = registry
    /\ \A t, u \in 1..MaxThreads :
         (threads'[t] # threads[t] /\ threads'[u] # threads[u]) => t = u

\* C19: under every interleaving of concurrent encode and decode calls on the
\* same record type, each with its own value or buffer, every call returns what
\* it returns when run alone; no call writes to the descriptor or to the state
\* of another call.
C19_ConcurrentCalls ==
    /\ [](\A t \in 1..MaxThreads : threads[t].at = "done" => threads[t].out = Alone(t))
    /\ [][OwnStateOnly]_vars

C19_ConcurrentCallsWitness ==
    /\ threads[1].at = "done" /\ threads[1].op = "encode" /\ threads[1].overlap
    /\ threads[2].at = "done" /\ threads[2].op = "decode" /\ threads[2].overlap
    /\ threads[1].out.ok /\ threads[2].out.ok
    /\ threads[1].byteorder # threads[2].byteorder

(***************************************************************************)
(* C21  Array bulk-append equivalence.                                     *)
(***************************************************************************)
IsArray(cls, i) ==
    /\ ClassFields(cls)[i].type.k = "Annotated"
    /\ ClassFields(cls)[i].type.base.k = "list_of"

\* the encoding of the items of the array field i
InnerEncoding(cls, i) == _resolve_encoding(ClassFields(cls)[i].type.base.inner, registry).val

\* the sinks an array encoder is tried on: an empty one and one with content
Sinks == {<<>>, <<PyBool(TRUE), IntOf(9)>>}

\* the general path: each element encoded on its own, in sequence order
Elementwise(inner, l, attributes, byteorder) ==
    apply_encode(ArrayEncode(inner.encode), l, attributes, byteorder)

\* the bytes or the error that packing the sink gives
Packed(r, format, byteorder) ==
    IF r.ok THEN Except(struct_pack(format, byteorder, r.attrs), "struct.error", "BstructError")
    ELSE r

\* the item of `items` that does not encode on its own, 0 when all do
FirstBad(inner, items, byteorder) ==
    IF \A k \in 1..Len(items) : apply_encode(inner.encode, items[k], <<>>, byteorder).ok
    THEN 0
    ELSE CHOOSE k \in 1..Len(items) :
           /\ ~apply_encode(inner.encode, items[k], <<>>, byteorder).ok
           /\ \A j \in 1..(k - 1) : apply_encode(inner.encode, items[j], <<>>, byteorder).ok

\* r is what encoding the items one by one in sequence order leaves: the sink
\* with each item's own values behind its content, or the first item's error
InSequenceOrder(r, inner, items, attributes, byteorder) ==
    IF FirstBad(inner, items, byteorder) = 0
    THEN r = Encoded(attributes \o
                     Concat([k \in 1..Len(items) |->
                               apply_encode(inner.encode, items[k], <<>>, byteorder).attrs]))
    ELSE r = apply_encode(inner.encode, items[FirstBad(inner, items, byteorder)], <<>>,
                          byteorder)

\* C21: for an array whose inner encode is the identity pass-through, the bulk
\* path leaves the sink as encoding each element on its own in sequence order
\* does (same values, same order, behind the sink's content), for every input
\* sequence of any length, so both paths give the same bytes or the same error;
\* an array whose inner encode is not the pass-through encodes element by
\* element in sequence order.
C21_BulkAppend ==
    (call.op = "encode" /\ call.cls \in DOMAIN registry) =>
       \A i \in {k \in 1..Len(ClassFields(call.cls)) : IsArray(call.cls, k)} :
       \A attributes \in Sinks :
          IF InnerEncoding(call.cls, i).encode = Fn("_raw_encode")
          THEN /\ FieldEncoding(call.cls, i).encode = Fn("_encode_native_list")
               /\ apply_encode(FieldEncoding(call.cls, i).encode, call.value.attrs[i],
                               attributes, call.byteorder)
                    = Elementwise(InnerEncoding(call.cls, i), call.value.attrs[i],
                                  attributes, call.byteorder)
               /\ Packed(apply_encode(FieldEncoding(call.cls, i).encode,
                                      call.value.attrs[i], <<>>, call.byteorder),
                         FieldEncoding(call.cls, i).format, call.byteorder)
                    = Packed(Elementwise(InnerEncoding(call.cls, i), call.value.attrs[i],
                                         <<>>, call.byteorder),
                             FieldEncoding(call.cls, i).format, call.byteorder)
          ELSE /\ FieldEncoding(call.cls, i).encode
                    = ArrayEncode(InnerEncoding(call.cls, i).encode)
               /\ iterate(call.value.attrs[i]).ok =>
                    InSequenceOrder(apply_encode(FieldEncoding(call.cls, i).encode,
                                                 call.value.attrs[i], attributes,
                                                 call.byteorder),
                                    InnerEncoding(call.cls, i),
                                    iterate(call.value.attrs[i]).val, attributes,
                                    call.byteorder)

C21_BulkAppendWitness ==
    /\ call.op = "encode" /\ call.cls = "Outer"
    /\ call.value = OuterOf(<<IntOf(258), IntOf(772), IntOf(9)>>, <<IntOf(5)>>,
                            <<PyStr(<<120>>)>>)
    /\ InnerEncoding("Outer", 1).encode = Fn("_raw_encode")
    /\ apply_encode(FieldEncoding("Outer", 1).encode, call.value.attrs[1],
                    <<PyBool(TRUE), IntOf(9)>>, call.byteorder)
         = Encoded(<<PyBool(TRUE), IntOf(9), IntOf(258), IntOf(772), IntOf(9)>>)
    /\ FieldEncoding("Outer", 3).encode = ArrayEncode(Fn("_encode_str"))
    /\ apply_encode(FieldEncoding("Outer", 3).encode, call.value.attrs[3],
                    <<PyBool(TRUE), IntOf(9)>>, call.byteorder)
         = Encoded(<<PyBool(TRUE), IntOf(9), PyBytes(<<120>>)>>)

(***************************************************************************)
(* C22  write_many is ordered and prefix-preserving.                       *)
(***************************************************************************)
\* the bytes the buffer received since the last call began
Received == SubSeq(stream.data, io.at + 1, Len(stream.data))

\* the first item that does not encode, 0 when all do
FailsAt(items, byteorder) ==
    IF \A k \in 1..Len(items) : encode(registry[items[k].cls], items[k], byteorder).ok
    THEN 0
    ELSE CHOOSE k \in 1..Len(items) :
           /\ ~encode(registry[items[k].cls], items[k], byteorder).ok
           /\ \A j \in 1..(k - 1) : encode(registry[items[j].cls], items[j], byteorder).ok

\* encode(item1) ... encode(itemk), in that order
EncodedInOrder(items, byteorder) ==
    Concat([k \in 1..Len(items) |->
              encode(registry[items[k].cls], items[k], byteorder).val.data])

\* C22: write_many encodes and writes the items one at a time in iteration
\* order: after a successful call the buffer has received encode(item1) ...
\* encode(itemk) in that order; if encoding item j fails the buffer has received
\* the encodings of the items 1..j-1 and nothing of item j or later, and the
\* error reaches the caller.
C22_WriteManyPrefix ==
    call.op = "write_many" =>
       IF FailsAt(io.items, call.byteorder) = 0
       THEN /\ result = Ok(PyNone)
            /\ Received = EncodedInOrder(io.items, call.byteorder)
            /\ stream.pos = Len(stream.data)
       ELSE /\ result = encode(registry["Item"],
                               io.items[FailsAt(io.items, call.byteorder)],
                               call.byteorder)
            /\ result = Raise("BstructError")
            /\ Received = EncodedInOrder(SubSeq(io.items, 1,
                                                FailsAt(io.items, call.byteorder) - 1),
                                         call.byteorder)
            /\ stream.pos = Len(stream.data)

C22_WriteManyPrefixWitness ==
    /\ call.op = "write_many"
    /\ io.items = <<ItemOf(255), ItemOf(256), ItemOf(1)>>
    /\ result = Raise("BstructError")
    /\ Received = <<255>>
    /\ stream = BytesIO(<<3, 255>>, 2)

====
